---- MODULE Spec2Model ----
(***************************************************************************)
(* okihome: the tab/widget repository (PostgreSQL backend, SQLite backend  *)
(* with its process-wide lock, SQLite backend behind the lock decorator),  *)
(* its hand-built transaction scope and the service-layer operations that  *)
(* keep a tab's layout and its widget rows consistent.                     *)
(***************************************************************************)
EXTENDS Integers, Sequences, FiniteSets, TLC

\* ------------------------------------------------------------------ bounds
NumProcs == 2
MaxWidgets == 3   \* widget rows, widget ids and entries of a stored layout
MaxCols == 2      \* columns of a layout
MaxPerm == 2      \* entries of a layout passed to UpdateLayout
MaxScript == 2    \* repository calls of a closure run in a transaction
MaxVersion == 2   \* versions of an email item
MaxCalls == 2     \* calls one caller makes one after the other
MaxGuids == 2     \* GUIDs in one AreItemsRead or MarkAsRead call

\* -------------------------------------------------------- program constants
TabID == 1
LB == -1
RB == -2

Procs == 1..NumProcs
Backends == {"postgresql", "sqlite", "sqliteLocked"}
WidgetTypes == {"feed", "email"}
Titles == {"News", "Mail"}
NoProc == 0

\* A caller identity: has a TabAccess row or not, is admin or not.
Callers == {[access |-> TRUE, admin |-> FALSE],
            [access |-> FALSE, admin |-> FALSE],
            [access |-> FALSE, admin |-> TRUE]}

VARIABLES
    cfg,         \* the run: backend in use, callers, fault injection
    repoTx,      \* the Tx field of the shared repository value
    tabRow,      \* t_tab row of tab TabID: [title, layout]
    widgetRows,  \* t_widget: set of [id, tab_id, type]
    widgetSeq,   \* t_widget id sequence (PostgreSQL bigserial)
    rwMutex,     \* sync.RWMutex: [w: holder or NoProc, r: set of holders]
    pc,          \* per caller: position in the operation
    op,          \* per caller: operation and arguments
    loc,         \* per caller: local tab and widget values
    tx,          \* per caller: the transactional view, if any
    res,         \* per caller: result of the finished call
    seen,        \* per caller: layout read by the last GetTab (history)
    pre,         \* per caller: database at call start (history)
    faulted,     \* per caller: a storage failure hit this call (history)
    emailRows,   \* t_emailitem: set of [account_id, guid, version, item]
    feedRows,    \* t_feed: set of [id, url]
    feedSeq,     \* t_feed id sequence (PostgreSQL bigserial)
    cur,         \* per caller: what the running call has read so far
    snap,        \* per caller: the calls made so far (history)
    lk,          \* per caller: the locks its repository call holds, and its plan
    direct,      \* the same calls made on the undecorated backend: tables, results
    data         \* the user, account, read-state, item, code and tab-access tables,
                 \* and the tabs with their widgets where there are several

\* The tab tables and the state of the tab operations.
tabVars == <<repoTx, tabRow, widgetRows, widgetSeq, loc, tx, seen, pre>>
\* The email cache, the feed table and the state of their operations.
others == <<emailRows, feedRows, feedSeq, cur, snap, lk, direct, data>>

vars == <<cfg, repoTx, tabRow, widgetRows, widgetSeq, rwMutex, pc, op, loc, tx,
          res, seen, pre, faulted, emailRows, feedRows, feedSeq, cur, snap, lk,
          direct, data>>

\* ------------------------------------------------------------ pure helpers
RECURSIVE Flatten(_)
Flatten(cols) ==
    IF cols = <<>> THEN <<>> ELSE Head(cols) \o Flatten(Tail(cols))

Range(s) == {s[i] : i \in DOMAIN s}

NoDup(s) == \A i, j \in DOMAIN s : i # j => s[i] # s[j]

Max(S) == IF S = {} THEN 0 ELSE CHOOSE x \in S : \A y \in S : y <= x

ZeroWidget == [ID |-> 0, Type |-> ""]

IDsOf(widgets) == [i \in DOMAIN widgets |->
                     [j \in DOMAIN widgets[i] |-> widgets[i][j].ID]]

\* StoreTab's serialisation of tab.Widgets: "[[1,2],[3]]" as a token list.
RECURSIVE FormatColsMutant(_)
FormatColsMutant(cols) ==
    IF cols = <<>> THEN <<>>
    ELSE (IF Head(cols) = <<>> THEN <<>> ELSE <<LB>> \o Head(cols) \o <<RB>>)
         \o FormatColsMutant(Tail(cols))

RECURSIVE FormatCols(_)
FormatCols(cols) ==
    IF cols = <<>> THEN <<>>
    ELSE <<LB>> \o Head(cols) \o <<RB>> \o FormatCols(Tail(cols))

FormatLayout(widgets) == <<LB>> \o FormatCols(IDsOf(widgets)) \o <<RB>>

\* GetTab's json.Unmarshal of the stored layout into [][]int64.
RECURSIVE ParseFrom(_, _, _)
ParseFrom(s, i, cols) ==
    IF i > Len(s) THEN cols
    ELSE IF s[i] = LB THEN ParseFrom(s, i + 1, Append(cols, <<>>))
    ELSE IF s[i] = RB THEN ParseFrom(s, i + 1, cols)
    ELSE ParseFrom(s, i + 1, [cols EXCEPT ![Len(cols)] = Append(@, s[i])])

ParseLayout(s) == ParseFrom(SubSeq(s, 2, Len(s) - 1), 1, <<>>)

\* ------------------------------------------------------------- the database
DB == [tab |-> tabRow, widgets |-> widgetRows]

ApplyWrite(d, w) ==
    CASE w.kind = "updateTab" ->
           [d EXCEPT !.tab = [title |-> w.title, layout |-> w.layout]]
      [] w.kind = "insertWidget" ->
           [d EXCEPT !.widgets = @ \cup {[id |-> w.id, tab_id |-> w.tab_id, type |-> w.type]}]
      [] w.kind = "updateWidget" ->
           [d EXCEPT !.widgets =
               {IF r.id = w.id /\ r.tab_id = w.tab_id
                  THEN [r EXCEPT !.type = w.type] ELSE r : r \in @}]
      [] w.kind = "deleteWidget" ->
           [d EXCEPT !.widgets = {r \in @ : ~(r.id = w.id /\ r.tab_id = w.tab_id)}]

RECURSIVE ApplyLog(_, _)
ApplyLog(log, d) ==
    IF log = <<>> THEN d ELSE ApplyLog(Tail(log), ApplyWrite(d, Head(log)))

NoTx == [active |-> FALSE, log |-> <<>>]

\* repo.Queryer: the transaction when the view has one, the database otherwise.
Queryer(t) == IF t.active THEN ApplyLog(t.log, DB) ELSE DB

\* repo.Execer: a write goes to the transaction when the view has one.
ExecerMutant(t) == FALSE
Execer(t) == t.active

Exec(p, w) ==
    IF Execer(tx[p])
      THEN /\ tx' = [tx EXCEPT ![p].log = Append(@, w)]
           /\ UNCHANGED <<tabRow, widgetRows>>
      ELSE /\ tabRow' = ApplyWrite(DB, w).tab
           /\ widgetRows' = ApplyWrite(DB, w).widgets
           /\ UNCHANGED tx

\* id assigned by INSERT INTO t_widget: bigserial on PostgreSQL, rowid
\* (largest id in the table plus one) on SQLite.
NewWidgetID(d) ==
    IF cfg.backend = "postgresql" THEN widgetSeq
    ELSE Max({r.id : r \in d.widgets}) + 1

\* repo.GetWidget: the row's id and type; the error of the SELECT is not
\* looked at, so a missing row (or a failed SELECT) yields the zero Widget.
GetWidget(d, tabID, widgetID, fails) ==
    IF ~fails /\ \E r \in d.widgets : r.id = widgetID /\ r.tab_id = tabID
      THEN LET r == CHOOSE r \in d.widgets : r.id = widgetID /\ r.tab_id = tabID
           IN  [ID |-> r.id, Type |-> r.type]
      ELSE ZeroWidget

\* repo.GetTab, second half: resolve every id of the layout into a Widget.
\* failing: the positions <<i, j>> whose SELECT fails.
ResolveWidgets(d, layout, failing) ==
    LET ids == ParseLayout(layout)
    IN  [i \in DOMAIN ids |->
           [j \in DOMAIN ids[i] |->
              GetWidget(d, TabID, ids[i][j], <<i, j>> \in failing)]]

Positions(layout) ==
    LET ids == ParseLayout(layout)
    IN  {x \in (DOMAIN ids) \X (1..Len(layout)) : x[2] \in DOMAIN ids[x[1]]}

\* --------------------------------------------------- the layout algorithms
\* repo.UpdateTabLayout: walk the new layout, taking each id out of the map
\* of the tab's widgets; "" when the layout is accepted.
RECURSIVE Consume(_, _)
Consume(remaining, flat) ==
    IF flat = <<>>
      THEN IF remaining # {} THEN "notAllUsed" ELSE ""
      ELSE IF Head(flat) \notin remaining THEN "notInTab"
           ELSE Consume(remaining \ {Head(flat)}, Tail(flat))

ValidateLayoutMutant(widgets, layout) ==
    IF Range(Flatten(layout)) \subseteq Range(Flatten(IDsOf(widgets)))
      THEN "" ELSE "notInTab"
ValidateLayout(widgets, layout) ==
    Consume(Range(Flatten(IDsOf(widgets))), Flatten(layout))

\* The widgets of the accepted layout: allWidgets[widgetID] per entry.
Rearrange(widgets, layout) ==
    LET flat == Flatten(widgets)
        W(id) == flat[Max({k \in DOMAIN flat : flat[k].ID = id})]
    IN  [i \in DOMAIN layout |-> [j \in DOMAIN layout[i] |-> W(layout[i][j])]]

\* repo.DeleteWidgetFromTab: the scan over the columns keeps the last match
\* in iFound, jFound and sets found.
FoundAt(widgets, widgetID) ==
    {x \in (DOMAIN widgets) \X (1..Len(Flatten(widgets))) :
        x[2] \in DOMAIN widgets[x[1]] /\ widgets[x[1]][x[2]].ID = widgetID}

ScanMutant(widgets, widgetID) ==
    LET at == FoundAt(widgets, widgetID)
        last == CHOOSE x \in at :
                  \A y \in at : y[1] < x[1] \/ (y[1] = x[1] /\ y[2] <= x[2])
    IN  IF at = {} THEN [found |-> TRUE, i |-> 1, j |-> 1]
        ELSE [found |-> TRUE, i |-> last[1], j |-> last[2]]
Scan(widgets, widgetID) ==
    LET at == FoundAt(widgets, widgetID)
        last == CHOOSE x \in at :
                  \A y \in at : y[1] < x[1] \/ (y[1] = x[1] /\ y[2] <= x[2])
    IN  IF at = {} THEN [found |-> FALSE, i |-> 0, j |-> 0]
        ELSE [found |-> TRUE, i |-> last[1], j |-> last[2]]

\* append(col[:jFound], col[jFound+1:]...)
RemoveAtMutant(col, j) == SubSeq(col, 1, j - 1)
RemoveAt(col, j) == SubSeq(col, 1, j - 1) \o SubSeq(col, j + 1, Len(col))

RemoveFrom(widgets, i, j) ==
    IF i \in DOMAIN widgets THEN [widgets EXCEPT ![i] = RemoveAt(@, j)] ELSE widgets

\* App.NewWidget: append to the first column, creating it when there is none.
AppendFirst(widgets, w) ==
    IF Len(widgets) = 0 THEN <<<<w>>>>
    ELSE [widgets EXCEPT ![1] = Append(@, w)]

\* ------------------------------------------------------------ input domains
Seqs(S, n) == UNION {[1..m -> S] : m \in 0..n}

\* The ways to cut a sequence of n entries into k columns.
Cuts(n, k) == {c \in [1..(k - 1) -> 0..n] : \A i, j \in 1..(k - 1) : i <= j => c[i] <= c[j]}

Split(f, k, c) ==
    [i \in 1..k |->
        SubSeq(f, (IF i = 1 THEN 0 ELSE c[i - 1]) + 1, IF i = k THEN Len(f) ELSE c[i])]

\* Every arrangement of at most n of the given ids in at most MaxCols columns.
LayoutsOf(ids, n) ==
    {<<>>} \cup
    UNION {UNION {{Split(f, k, c) : c \in Cuts(Len(f), k)} : k \in 1..MaxCols} :
             f \in Seqs(ids, n)}

LayoutInputs == LayoutsOf(0..MaxPerm, MaxPerm)

\* The tabs a sequence of NewWidget and UpdateLayout calls leaves behind: the
\* widgets 1..k arranged in columns, each with its row, and possibly one more
\* row that is in no column (a NewWidget whose StoreTab failed).
TabStates(n) ==
    {[layout |-> l, orphan |-> o] :
        l \in {l \in LayoutsOf(1..n, n) : /\ NoDup(Flatten(l))
                                          /\ Range(Flatten(l)) = 1..Len(Flatten(l))},
        o \in BOOLEAN}

\* The same with the widgets in id order: UpdateTabLayout compares ids for
\* equality only, and its inputs range over every order.
RECURSIVE Ascending(_)
Ascending(f) ==
    IF Len(f) <= 1 THEN TRUE ELSE f[1] < f[2] /\ Ascending(Tail(f))

TabStatesInOrder(n) == {s \in TabStates(n) : Ascending(Flatten(s.layout))}

RowsOf(s) ==
    LET k == Len(Flatten(s.layout))
    IN  {[id |-> i, tab_id |-> TabID, type |-> "feed"] :
            i \in 1..(IF s.orphan THEN k + 1 ELSE k)}

NoOp == [name |-> "", widget |-> ZeroWidget, widgetID |-> 0, layout |-> <<>>,
         title |-> "", script |-> <<>>, ret |-> ""]
NoLoc == [tab |-> [Title |-> "", Widgets |-> <<>>], widget |-> ZeroWidget,
          begins |-> 0, nested |-> "", innerRan |-> FALSE,
          k |-> 1, writes |-> <<>>, ret |-> ""]
NoPre == [tab |-> [title |-> "", layout |-> <<>>], widgets |-> {}]

ActiveProcs == DOMAIN cfg.roles
Faults == IF cfg.faults THEN BOOLEAN ELSE {FALSE}
InputIDs == IF cfg.anyID THEN 0..MaxWidgets ELSE {0}
WidgetInputs == {[ID |-> i, Type |-> t] : i \in InputIDs, t \in WidgetTypes}

NoCur == [found |-> FALSE, version |-> 0, id |-> 0]
NoData == [users |-> {}, reads |-> {}, items |-> {}, info |-> {}, codes |-> {},
           accounts |-> {}, tabs |-> {}, access |-> {}, tabSeq |-> 1,
           widgets |-> {}, widgetSeq |-> 1]
NoDirect == [t |-> [email |-> {}, feeds |-> {}], out |-> <<>>]
NoLk == [o |-> <<>>, seg |-> 0, nest |-> 0, r |-> 0, w |-> 0, calls |-> 0]

InitOthers ==
    /\ emailRows = {}
    /\ feedRows = {}
    /\ feedSeq = 1
    /\ cur = [p \in Procs |-> NoCur]
    /\ snap = [p \in Procs |-> <<>>]
    /\ lk = [p \in Procs |-> NoLk]
    /\ direct = NoDirect
    /\ data = NoData

InitCore(c, states) ==
    /\ cfg = c
    /\ repoTx = FALSE
    /\ \E s \in states :
          /\ Cardinality(RowsOf(s)) <= MaxWidgets
          /\ tabRow = [title |-> "News",
                       layout |-> <<LB>> \o FormatCols(s.layout) \o <<RB>>]
          /\ widgetRows = RowsOf(s)
          /\ widgetSeq = Cardinality(RowsOf(s)) + 1
    /\ rwMutex = [w |-> NoProc, r |-> {}]
    /\ pc = [p \in Procs |-> "idle"]
    /\ op = [p \in Procs |-> NoOp]
    /\ loc = [p \in Procs |-> NoLoc]
    /\ tx = [p \in Procs |-> NoTx]
    /\ res = [p \in Procs |-> ""]
    /\ seen = [p \in Procs |-> <<>>]
    /\ pre = [p \in Procs |-> NoPre]
    /\ faulted = [p \in Procs |-> FALSE]

InitWith(c, states) == InitOthers /\ InitCore(c, states)

\* ------------------------------------------------------------------ locking
\* sqlite.go takes the package-level rwMutex inside every primitive method;
\* lockedRepo takes its rwMutex around every method of the wrapped backend,
\* the composite ones included.
Locking == cfg.backend \in {"sqlite", "sqliteLocked"}
Decorated == cfg.backend = "sqliteLocked"
HoldsW(p) == rwMutex.w = p

CanRead(p) == ~Locking \/ HoldsW(p) \/ rwMutex.w = NoProc
CanWrite(p) == ~Locking \/ HoldsW(p) \/ (rwMutex.w = NoProc /\ rwMutex.r = {})

rlock(p) == IF Locking /\ ~HoldsW(p) THEN [rwMutex EXCEPT !.r = @ \cup {p}] ELSE rwMutex
runlock(p) == [rwMutex EXCEPT !.r = @ \ {p}]
unlock(p) == IF HoldsW(p) THEN [rwMutex EXCEPT !.w = NoProc] ELSE rwMutex

\* ---------------------------------------------------------- runInTransaction
\* "if r.Tx != nil": the receiver already is a transactional view.
NestedCheckMutant(rTx) == ""
NestedCheck(rTx) == IF rTx THEN "nested" ELSE ""

\* "txRepo := *r; txRepo.Tx = tx": the view is a copy, the receiver keeps its Tx.
ReceiverTxAfterBegin(rTx) == rTx

\* "if err != nil { tx.Rollback() ... return err }; tx.Commit()"
TxDecisionMutant(err) == "commit"
TxDecision(err) == IF err # "" THEN "rollback" ELSE "commit"

\* ------------------------------------------------------- service-layer calls
\* CurrentUserID, IsTabAccessAllowed and CurrentUserIsAdmin at the head of
\* every tab operation: a caller passes with an access row, or as admin.
AllowedMutant(c, fail) == TRUE
Allowed(c, fail) == c.admin \/ (c.access /\ ~fail)

Enter(p, o) ==
    /\ o.name \in cfg.roles[p]
    /\ CanRead(p)
    /\ op' = [op EXCEPT ![p] = o]
    /\ pre' = [pre EXCEPT ![p] = DB]
    /\ UNCHANGED <<cfg, repoTx, tabRow, widgetRows, widgetSeq, rwMutex, loc, tx, seen,
                   faulted>>

\* The first step of a repository composite: the decorator locks first.
CompositeEntry == IF Decorated THEN "lockOp" ELSE "begin"

\* App.NewWidget up to the configuration set-up (GetOrCreateFeedID / GetAccount),
\* which either fails the call or leaves the widget's ID and Type as given.
CallNewWidget(p) ==
    /\ pc[p] = "idle"
    /\ \E c \in Callers, w \in WidgetInputs, fail \in Faults, prepFail \in Faults :
        /\ Enter(p, [NoOp EXCEPT !.name = "NewWidget", !.widget = w])
        /\ IF ~Allowed(c, fail)
             THEN /\ pc' = [pc EXCEPT ![p] = "done"]
                  /\ res' = [res EXCEPT ![p] = "accessDenied"]
           ELSE IF prepFail
             THEN /\ pc' = [pc EXCEPT ![p] = "done"]
                  /\ res' = [res EXCEPT ![p] = "storage"]
           ELSE /\ pc' = [pc EXCEPT ![p] = "getTab"]
                /\ res' = [res EXCEPT ![p] = ""]

CallDeleteWidget(p) ==
    /\ pc[p] = "idle"
    /\ \E c \in Callers, id \in 0..MaxWidgets, fail \in Faults :
        /\ Enter(p, [NoOp EXCEPT !.name = "DeleteWidget", !.widgetID = id])
        /\ IF ~Allowed(c, fail)
             THEN /\ pc' = [pc EXCEPT ![p] = "done"]
                  /\ res' = [res EXCEPT ![p] = "accessDenied"]
             ELSE /\ pc' = [pc EXCEPT ![p] = CompositeEntry]
                  /\ res' = [res EXCEPT ![p] = ""]

CallUpdateLayout(p) ==
    /\ pc[p] = "idle"
    /\ \E c \in Callers, l \in LayoutInputs, fail \in Faults :
        /\ Enter(p, [NoOp EXCEPT !.name = "UpdateLayout", !.layout = l])
        /\ IF ~Allowed(c, fail)
             THEN /\ pc' = [pc EXCEPT ![p] = "done"]
                  /\ res' = [res EXCEPT ![p] = "accessDenied"]
             ELSE /\ pc' = [pc EXCEPT ![p] = CompositeEntry]
                  /\ res' = [res EXCEPT ![p] = ""]

CallEditTab(p) ==
    /\ pc[p] = "idle"
    /\ \E c \in Callers, t \in Titles, fail \in Faults :
        /\ Enter(p, [NoOp EXCEPT !.name = "EditTab", !.title = t])
        /\ IF ~Allowed(c, fail)
             THEN /\ pc' = [pc EXCEPT ![p] = "done"]
                  /\ res' = [res EXCEPT ![p] = "accessDenied"]
             ELSE /\ pc' = [pc EXCEPT ![p] = "getTab"]
                  /\ res' = [res EXCEPT ![p] = ""]

\* ------------------------------------------------------ repository methods
\* lockedRepo.UpdateTabLayout / DeleteWidgetFromTab: r.lock(...).
LockOp(p) ==
    /\ pc[p] = "lockOp"
    /\ rwMutex.w = NoProc /\ rwMutex.r = {}
    /\ rwMutex' = [rwMutex EXCEPT !.w = p]
    /\ pc' = [pc EXCEPT ![p] = "begin"]
    /\ UNCHANGED <<cfg, repoTx, tabRow, widgetRows, widgetSeq, op, loc, tx, res,
                   seen, pre, faulted>>

\* runInTransaction up to the call of the closure.
Begin(p) ==
    /\ pc[p] = "begin"
    /\ \E fail \in Faults :
         IF NestedCheck(repoTx) # "" \/ fail
           THEN /\ pc' = [pc EXCEPT ![p] = "done"]
                /\ res' = [res EXCEPT ![p] =
                              IF NestedCheck(repoTx) # "" THEN "nested" ELSE "storage"]
                /\ faulted' = [faulted EXCEPT ![p] = @ \/ NestedCheck(repoTx) = ""]
                /\ rwMutex' = unlock(p)
                /\ UNCHANGED <<repoTx, tx, loc>>
           ELSE /\ tx' = [tx EXCEPT ![p] = [active |-> TRUE, log |-> <<>>]]
                /\ repoTx' = ReceiverTxAfterBegin(repoTx)
                /\ loc' = [loc EXCEPT ![p].begins = @ + 1]
                /\ pc' = [pc EXCEPT ![p] =
                             IF op[p].name = "RunTx" THEN "closure" ELSE "getTab"]
                /\ UNCHANGED <<res, faulted, rwMutex>>
    /\ UNCHANGED <<cfg, tabRow, widgetRows, widgetSeq, op, seen, pre>>

\* repo.GetTab, first half: SELECT id, title, layout FROM t_tab.
GetTabRow(p) ==
    /\ pc[p] = "getTab"
    /\ CanRead(p)
    /\ \E fail \in Faults :
         IF fail
           THEN /\ pc' = [pc EXCEPT ![p] = IF tx[p].active THEN "endTx" ELSE "done"]
                /\ res' = [res EXCEPT ![p] = "storage"]
                /\ faulted' = [faulted EXCEPT ![p] = TRUE]
                /\ UNCHANGED <<loc, seen, rwMutex>>
           ELSE /\ loc' = [loc EXCEPT ![p].tab =
                              [Title |-> Queryer(tx[p]).tab.title, Widgets |-> <<>>]]
                /\ seen' = [seen EXCEPT ![p] = Queryer(tx[p]).tab.layout]
                /\ rwMutex' = rlock(p)
                /\ pc' = [pc EXCEPT ![p] = "getWidgets"]
                /\ UNCHANGED <<res, faulted>>
    /\ UNCHANGED <<cfg, repoTx, tabRow, widgetRows, widgetSeq, op, tx, pre>>

\* repo.GetTab, second half, and what the caller computes from the tab
\* before its next repository call.
GetWidgets(p) ==
    /\ pc[p] = "getWidgets"
    /\ \E failing \in (IF cfg.selectFaults THEN SUBSET Positions(seen[p]) ELSE {{}}) :
         LET widgets == ResolveWidgets(Queryer(tx[p]), seen[p], failing)
             name == op[p].name
             verdict == ValidateLayout(widgets, op[p].layout)
             scan == Scan(widgets, op[p].widgetID)
         IN  /\ faulted' = [faulted EXCEPT ![p] = @ \/ failing # {}]
             /\ CASE name = "NewWidget" ->
                       /\ loc' = [loc EXCEPT ![p].tab.Widgets = widgets]
                       /\ pc' = [pc EXCEPT ![p] = "storeWidget"]
                       /\ UNCHANGED res
                  [] name = "EditTab" ->
                       /\ loc' = [loc EXCEPT ![p].tab =
                                     [Title |-> op[p].title, Widgets |-> widgets]]
                       /\ pc' = [pc EXCEPT ![p] = "storeTab"]
                       /\ UNCHANGED res
                  [] name = "UpdateLayout" ->
                       IF verdict = ""
                         THEN /\ loc' = [loc EXCEPT ![p].tab.Widgets =
                                            Rearrange(widgets, op[p].layout)]
                              /\ pc' = [pc EXCEPT ![p] = "storeTab"]
                              /\ UNCHANGED res
                         ELSE /\ pc' = [pc EXCEPT ![p] = "endTx"]
                              /\ res' = [res EXCEPT ![p] = verdict]
                              /\ UNCHANGED loc
                  [] name = "DeleteWidget" ->
                       IF scan.found
                         THEN /\ loc' = [loc EXCEPT ![p].tab.Widgets =
                                            RemoveFrom(widgets, scan.i, scan.j)]
                              /\ pc' = [pc EXCEPT ![p] = "storeTab"]
                              /\ UNCHANGED res
                         ELSE /\ pc' = [pc EXCEPT ![p] = "endTx"]
                              /\ res' = [res EXCEPT ![p] = "widgetNotFound"]
                              /\ UNCHANGED loc
    /\ rwMutex' = runlock(p)
    /\ UNCHANGED <<cfg, repoTx, tabRow, widgetRows, widgetSeq, op, tx, seen, pre>>

\* repo.StoreWidget as App.NewWidget calls it, then the append to the tab.
StoreWidget(p) ==
    /\ pc[p] = "storeWidget"
    /\ CanWrite(p)
    /\ Len(Flatten(loc[p].tab.Widgets)) < MaxWidgets
    /\ \E fail \in Faults :
         LET w == op[p].widget
             id == IF w.ID > 0 THEN w.ID ELSE NewWidgetID(Queryer(tx[p]))
             stored == [w EXCEPT !.ID = id]
         IN  IF fail
               THEN /\ pc' = [pc EXCEPT ![p] = "done"]
                    /\ res' = [res EXCEPT ![p] = "storage"]
                    /\ faulted' = [faulted EXCEPT ![p] = TRUE]
                    /\ UNCHANGED <<tabRow, widgetRows, widgetSeq, tx, loc>>
               ELSE /\ id <= MaxWidgets
                    /\ IF w.ID > 0
                         THEN /\ Exec(p, [kind |-> "updateWidget", id |-> id,
                                          tab_id |-> TabID, type |-> w.Type])
                              /\ UNCHANGED widgetSeq
                         ELSE /\ Exec(p, [kind |-> "insertWidget", id |-> id,
                                          tab_id |-> TabID, type |-> w.Type])
                              /\ widgetSeq' = IF cfg.backend = "postgresql"
                                                 THEN widgetSeq + 1 ELSE widgetSeq
                    /\ loc' = [loc EXCEPT ![p].widget = stored,
                                          ![p].tab.Widgets = AppendFirst(@, stored)]
                    /\ pc' = [pc EXCEPT ![p] = "storeTab"]
                    /\ UNCHANGED <<res, faulted>>
    /\ UNCHANGED <<cfg, repoTx, rwMutex, op, seen, pre>>

\* repo.StoreTab of an existing tab: UPDATE t_tab SET title, layout.
StoreTab(p) ==
    /\ pc[p] = "storeTab"
    /\ CanWrite(p)
    /\ \E fail \in Faults :
         IF fail
           THEN /\ pc' = [pc EXCEPT ![p] = IF tx[p].active THEN "endTx" ELSE "done"]
                /\ res' = [res EXCEPT ![p] = "storage"]
                /\ faulted' = [faulted EXCEPT ![p] = TRUE]
                /\ UNCHANGED <<tabRow, widgetRows, tx>>
           ELSE /\ Exec(p, [kind |-> "updateTab", title |-> loc[p].tab.Title,
                            layout |-> FormatLayout(loc[p].tab.Widgets)])
                /\ pc' = [pc EXCEPT ![p] = IF tx[p].active THEN "endTx" ELSE "done"]
                /\ res' = [res EXCEPT ![p] = IF tx[p].active THEN "" ELSE "ok"]
                /\ UNCHANGED faulted
    /\ UNCHANGED <<cfg, repoTx, widgetSeq, rwMutex, op, loc, seen, pre>>

\* runInTransaction after the closure returned res[p]: roll back and return
\* the closure's error, or commit; then the decorator's deferred unlock.
EndTx(p) ==
    /\ pc[p] = "endTx"
    /\ \E fail \in Faults :
         LET committed == TxDecision(res[p]) = "commit" /\ ~fail
             after == ApplyLog(tx[p].log, DB)
             result == IF res[p] # "" THEN res[p]
                       ELSE IF committed THEN "ok" ELSE "commitFailed"
         IN  /\ tabRow' = IF committed THEN after.tab ELSE tabRow
             /\ widgetRows' = IF committed THEN after.widgets ELSE widgetRows
             /\ faulted' = [faulted EXCEPT ![p] = @ \/ fail]
             /\ IF op[p].name = "DeleteWidget" /\ result = "ok"
                  THEN /\ pc' = [pc EXCEPT ![p] = "deleteWidget"]
                       /\ res' = [res EXCEPT ![p] = ""]
                  ELSE /\ pc' = [pc EXCEPT ![p] = "done"]
                       /\ res' = [res EXCEPT ![p] = result]
    /\ tx' = [tx EXCEPT ![p] = NoTx]
    /\ rwMutex' = unlock(p)
    /\ UNCHANGED <<cfg, repoTx, widgetSeq, op, loc, seen, pre>>

\* repo.DeleteWidget as App.DeleteWidget calls it after DeleteWidgetFromTab.
DeleteWidgetRow(p) ==
    /\ pc[p] = "deleteWidget"
    /\ CanWrite(p)
    /\ \E fail \in Faults :
         IF fail
           THEN /\ res' = [res EXCEPT ![p] = "storage"]
                /\ faulted' = [faulted EXCEPT ![p] = TRUE]
                /\ UNCHANGED <<tabRow, widgetRows, tx>>
           ELSE /\ Exec(p, [kind |-> "deleteWidget", id |-> op[p].widgetID,
                            tab_id |-> TabID])
                /\ res' = [res EXCEPT ![p] = "ok"]
                /\ UNCHANGED faulted
    /\ pc' = [pc EXCEPT ![p] = "done"]
    /\ UNCHANGED <<cfg, repoTx, widgetSeq, rwMutex, op, loc, seen, pre>>

\* ------------------------------------------ closures of runInTransaction
\* f(&txRepo): the closure calls methods of the view it is given, one after
\* the other, returns the first error it gets, and at its end returns op.ret.
WriteSteps == {"StoreTab", "StoreWidget", "DeleteWidget"}
NestedSteps == {"UpdateTabLayout", "DeleteWidgetFromTab"}
Scripts == Seqs(WriteSteps \cup NestedSteps, MaxScript)
ClosureErrors == {"", "closureError"}

WriteOf(p, step) ==
    LET view == Queryer(tx[p])
    IN  CASE step = "StoreTab" ->
               [kind |-> "updateTab", title |-> "Mail", layout |-> view.tab.layout]
          [] step = "StoreWidget" ->
               [kind |-> "insertWidget", id |-> NewWidgetID(view),
                tab_id |-> TabID, type |-> "email"]
          [] step = "DeleteWidget" ->
               [kind |-> "deleteWidget", id |-> 1, tab_id |-> TabID]

\* runInTransaction itself, with the closure as its input.
CallRunTx(p) ==
    /\ pc[p] = "idle"
    /\ \E s \in Scripts, e \in ClosureErrors :
        /\ Enter(p, [NoOp EXCEPT !.name = "RunTx", !.script = s, !.ret = e])
        /\ pc' = [pc EXCEPT ![p] = CompositeEntry]
        /\ res' = [res EXCEPT ![p] = ""]

ClosureWrite(p) ==
    /\ pc[p] = "closure"
    /\ loc[p].k <= Len(op[p].script)
    /\ op[p].script[loc[p].k] \in WriteSteps
    /\ CanWrite(p)
    /\ \E fail \in Faults :
         LET w == WriteOf(p, op[p].script[loc[p].k])
         IN  IF fail
               THEN /\ pc' = [pc EXCEPT ![p] = "endTx"]
                    /\ res' = [res EXCEPT ![p] = "storage"]
                    /\ loc' = [loc EXCEPT ![p].ret = "storage"]
                    /\ faulted' = [faulted EXCEPT ![p] = TRUE]
                    /\ UNCHANGED <<tabRow, widgetRows, widgetSeq, tx>>
               ELSE /\ Exec(p, w)
                    /\ widgetSeq' = IF w.kind = "insertWidget" /\ cfg.backend = "postgresql"
                                       THEN widgetSeq + 1 ELSE widgetSeq
                    /\ loc' = [loc EXCEPT ![p].k = @ + 1, ![p].writes = Append(@, w)]
                    /\ UNCHANGED <<pc, res, faulted>>
    /\ UNCHANGED <<cfg, repoTx, rwMutex, op, seen, pre>>

\* The closure calls UpdateTabLayout or DeleteWidgetFromTab of its view, which
\* enters runInTransaction with the view as receiver.
ClosureNested(p) ==
    /\ pc[p] = "closure"
    /\ loc[p].k <= Len(op[p].script)
    /\ op[p].script[loc[p].k] \in NestedSteps
    /\ LET verdict == NestedCheck(tx[p].active)
       IN  IF verdict # ""
             THEN /\ pc' = [pc EXCEPT ![p] = "endTx"]
                  /\ res' = [res EXCEPT ![p] = verdict]
                  /\ loc' = [loc EXCEPT ![p].nested = verdict, ![p].ret = verdict]
                  /\ UNCHANGED tx
             ELSE /\ tx' = [tx EXCEPT ![p].log = Append(@, WriteOf(p, "StoreTab"))]
                  /\ loc' = [loc EXCEPT ![p].nested = "ran", ![p].k = @ + 1,
                                        ![p].begins = @ + 1, ![p].innerRan = TRUE]
                  /\ UNCHANGED <<pc, res>>
    /\ UNCHANGED <<cfg, repoTx, tabRow, widgetRows, widgetSeq, rwMutex, op, seen, pre,
                   faulted>>

ClosureReturn(p) ==
    /\ pc[p] = "closure"
    /\ loc[p].k > Len(op[p].script)
    /\ pc' = [pc EXCEPT ![p] = "endTx"]
    /\ res' = [res EXCEPT ![p] = op[p].ret]
    /\ loc' = [loc EXCEPT ![p].ret = op[p].ret]
    /\ UNCHANGED <<cfg, repoTx, tabRow, widgetRows, widgetSeq, rwMutex, op, tx, seen,
                   pre, faulted>>

\* ------------------------------------------------------- the email cache
\* api.EmailItem contents, the GUIDs of one account's items, and the backend
\* of part_001 without the decorator (Config.Lock false).
Items == {"a", "b"}
GUIDs == {"g1", "g2"}
AccountID == 1
AllBackends == Backends \cup {"sqliteBare"}

EmailRow(guid, version, item) ==
    [account_id |-> AccountID, guid |-> guid, version |-> version, item |-> item]

KeyRows(rows, guid) == {r \in rows : r.account_id = AccountID /\ r.guid = guid}

\* The record of a call in snap: the tables when it started, filled in with
\* the result when it returns.
Tables == [email |-> emailRows, feeds |-> feedRows]
StartCall(p, o) == Append(snap[p], [op |-> o, before |-> Tables, res |-> "", id |-> 0])
EndCall(p, r, id) == [snap[p] EXCEPT ![Len(snap[p])].res = r, ![Len(snap[p])].id = id]
LastCall(p) == snap[p][Len(snap[p])]

\* sqlite.go locks inside the method, lockedRepo around it: either way the
\* write lock is held from here to the return.
LockedEntry(inner) == IF Locking THEN "lockW" ELSE inner

\* StoreEmailItem: "if err == sql.ErrNoRows ... else if currentVersion < version".
EmailDecisionMutant(found, currentVersion, version) ==
    IF ~found THEN "insert" ELSE IF currentVersion <= version THEN "update" ELSE "none"
EmailDecision(found, currentVersion, version) ==
    IF ~found THEN "insert" ELSE IF currentVersion < version THEN "update" ELSE "none"

CallStoreEmailItem(p) ==
    /\ pc[p] = "idle"
    /\ "StoreEmailItem" \in cfg.roles[p]
    /\ \E g \in GUIDs, v \in 0..MaxVersion, i \in Items :
         LET o == [name |-> "StoreEmailItem", guid |-> g, version |-> v, item |-> i]
         IN  /\ snap' = [snap EXCEPT ![p] = StartCall(p, o)]
             /\ cur' = [cur EXCEPT ![p] = NoCur]
    /\ pc' = [pc EXCEPT ![p] = LockedEntry("emailSelect")]
    /\ res' = [res EXCEPT ![p] = ""]
    /\ UNCHANGED <<cfg, rwMutex, op, faulted, emailRows, feedRows, feedSeq>>
    /\ UNCHANGED tabVars
    /\ UNCHANGED <<lk, direct, data>>

\* rwMutex.Lock() at the head of a write-shaped method.
LockW(p) ==
    /\ pc[p] = "lockW"
    /\ rwMutex.w = NoProc /\ rwMutex.r = {}
    /\ rwMutex' = [rwMutex EXCEPT !.w = p]
    /\ pc' = [pc EXCEPT ![p] =
                 IF LastCall(p).op.name = "StoreEmailItem" THEN "emailSelect"
                 ELSE "feedSelect"]
    /\ UNCHANGED <<cfg, op, res, faulted>>
    /\ UNCHANGED tabVars
    /\ UNCHANGED <<lk, direct, data>>
    /\ UNCHANGED others

\* SELECT version FROM t_emailitem WHERE account_id=$1 AND guid=$2
EmailSelect(p) ==
    /\ pc[p] = "emailSelect"
    /\ \E fail \in Faults :
         LET rows == KeyRows(emailRows, LastCall(p).op.guid)
         IN  IF fail
               THEN /\ pc' = [pc EXCEPT ![p] = "done"]
                    /\ res' = [res EXCEPT ![p] = "storage"]
                    /\ snap' = [snap EXCEPT ![p] = EndCall(p, "storage", 0)]
                    /\ faulted' = [faulted EXCEPT ![p] = TRUE]
                    /\ rwMutex' = unlock(p)
                    /\ UNCHANGED cur
               ELSE /\ cur' = [cur EXCEPT ![p] =
                                 IF rows = {} THEN NoCur
                                 ELSE [NoCur EXCEPT !.found = TRUE,
                                          !.version = (CHOOSE r \in rows : TRUE).version]]
                    /\ pc' = [pc EXCEPT ![p] = "emailWrite"]
                    /\ UNCHANGED <<res, snap, faulted, rwMutex>>
    /\ UNCHANGED <<cfg, op, emailRows, feedRows, feedSeq>>
    /\ UNCHANGED tabVars
    /\ UNCHANGED <<lk, direct, data>>

\* The INSERT (refused by c_pk_emailitem when the key has a row), the UPDATE
\* of the key's row, or nothing; then the return.
EmailWrite(p) ==
    /\ pc[p] = "emailWrite"
    /\ \E fail \in Faults :
         LET o == LastCall(p).op
             do == EmailDecision(cur[p].found, cur[p].version, o.version)
             row == EmailRow(o.guid, o.version, o.item)
             refused == (do # "none" /\ fail)
                          \/ (do = "insert" /\ KeyRows(emailRows, o.guid) # {})
             r == IF refused THEN "storage" ELSE "ok"
         IN  /\ emailRows' =
                   IF refused \/ do = "none" THEN emailRows
                   ELSE IF do = "insert" THEN emailRows \cup {row}
                   ELSE {IF x \in KeyRows(emailRows, o.guid) THEN row ELSE x :
                            x \in emailRows}
             /\ res' = [res EXCEPT ![p] = r]
             /\ snap' = [snap EXCEPT ![p] = EndCall(p, r, 0)]
             /\ faulted' = [faulted EXCEPT ![p] = @ \/ (do # "none" /\ fail)]
    /\ pc' = [pc EXCEPT ![p] = "done"]
    /\ rwMutex' = unlock(p)
    /\ UNCHANGED <<cfg, op, feedRows, feedSeq, cur>>
    /\ UNCHANGED tabVars
    /\ UNCHANGED <<lk, direct, data>>

\* ---------------------------------------------------------- the feed table
URLs == {"u1", "u2"}

URLRows(rows, url) == {r \in rows : r.url = url}

\* "SELECT id FROM t_feed WHERE url=$1" through sqlx.Get: the ids it can give.
FeedLookupMutant(rows, url) == {}
FeedLookup(rows, url) == {r.id : r \in URLRows(rows, url)}

\* id assigned by INSERT INTO t_feed: bigserial, or rowid on SQLite.
NewFeedID ==
    IF cfg.backend = "postgresql" THEN feedSeq
    ELSE Max({r.id : r \in feedRows}) + 1

CallGetOrCreateFeedID(p) ==
    /\ pc[p] = "idle"
    /\ "GetOrCreateFeedID" \in cfg.roles[p]
    /\ Len(snap[p]) < MaxCalls
    /\ \E u \in URLs :
         snap' = [snap EXCEPT ![p] = StartCall(p, [name |-> "GetOrCreateFeedID", url |-> u])]
    /\ cur' = [cur EXCEPT ![p] = NoCur]
    /\ pc' = [pc EXCEPT ![p] = LockedEntry("feedSelect")]
    /\ res' = [res EXCEPT ![p] = ""]
    /\ UNCHANGED <<cfg, rwMutex, op, faulted, emailRows, feedRows, feedSeq>>
    /\ UNCHANGED tabVars
    /\ UNCHANGED <<lk, direct, data>>

\* The SELECT: the id when a row is found, on to the INSERT when none is.
FeedSelect(p) ==
    /\ pc[p] = "feedSelect"
    /\ \E fail \in Faults :
         LET ids == FeedLookup(feedRows, LastCall(p).op.url)
         IN  IF fail
               THEN /\ pc' = [pc EXCEPT ![p] = "done"]
                    /\ res' = [res EXCEPT ![p] = "storage"]
                    /\ snap' = [snap EXCEPT ![p] = EndCall(p, "storage", 0)]
                    /\ faulted' = [faulted EXCEPT ![p] = TRUE]
                    /\ rwMutex' = unlock(p)
             ELSE IF ids # {}
               THEN /\ \E id \in ids :
                          snap' = [snap EXCEPT ![p] = EndCall(p, "ok", id)]
                    /\ pc' = [pc EXCEPT ![p] = "done"]
                    /\ res' = [res EXCEPT ![p] = "ok"]
                    /\ rwMutex' = unlock(p)
                    /\ UNCHANGED faulted
             ELSE /\ pc' = [pc EXCEPT ![p] = "feedInsert"]
                  /\ UNCHANGED <<res, snap, faulted, rwMutex>>
    /\ UNCHANGED <<cfg, op, emailRows, feedRows, feedSeq, cur>>
    /\ UNCHANGED tabVars
    /\ UNCHANGED <<lk, direct, data>>

\* The INSERT and the id it returns (RETURNING id, or LastInsertId, which can
\* fail after the row is in).
FeedInsert(p) ==
    /\ pc[p] = "feedInsert"
    /\ \E fail \in Faults, idFail \in Faults :
         LET r == IF fail \/ (idFail /\ cfg.backend # "postgresql") THEN "storage" ELSE "ok"
         IN  /\ feedRows' = IF fail THEN feedRows
                            ELSE feedRows \cup {[id |-> NewFeedID, url |-> LastCall(p).op.url]}
             /\ feedSeq' = IF ~fail /\ cfg.backend = "postgresql" THEN feedSeq + 1 ELSE feedSeq
             /\ res' = [res EXCEPT ![p] = r]
             /\ snap' = [snap EXCEPT ![p] = EndCall(p, r, IF r = "ok" THEN NewFeedID ELSE 0)]
             /\ faulted' = [faulted EXCEPT ![p] = @ \/ r # "ok"]
    /\ pc' = [pc EXCEPT ![p] = "done"]
    /\ rwMutex' = unlock(p)
    /\ UNCHANGED <<cfg, op, emailRows, cur>>
    /\ UNCHANGED tabVars
    /\ UNCHANGED <<lk, direct, data>>

\* The caller has its result and is free to call again.
Return(p) ==
    /\ pc[p] = "done"
    /\ Len(snap[p]) < MaxCalls
    /\ pc' = [pc EXCEPT ![p] = "idle"]
    /\ UNCHANGED <<cfg, rwMutex, op, res, faulted>>
    /\ UNCHANGED tabVars
    /\ UNCHANGED others

\* ------------------------------------------------------- the lock decorator
\* The operations of api.Repository, as <<verb, object>>.  Those the decorator
\* (and sqlite.go) runs under RLock ...
RLocked ==
    {<<"Get", "User">>, <<"Get", "Tabs">>, <<"Is", "TabAccessAllowed">>,
     <<"Get", "Tab">>, <<"Get", "Widget">>, <<"Get", "Feed">>, <<"Get", "FeedItems">>,
     <<"Are", "ItemsRead">>, <<"Get", "Account">>, <<"Get", "Accounts">>,
     <<"Get", "UserFromTemporaryCode">>, <<"Get", "EmailItem">>}

\* ... and those it runs under Lock.
WLocked ==
    {<<"Store", "User">>, <<"Allow", "TabAccess">>, <<"Store", "Tab">>,
     <<"Delete", "Tab">>, <<"Store", "Widget">>, <<"Delete", "Widget">>,
     <<"Update", "TabLayout">>, <<"Delete", "WidgetFromTab">>,
     <<"GetOrCreate", "FeedID">>, <<"Store", "Feed">>, <<"Set", "ItemRead">>,
     <<"Set", "ItemsRead">>, <<"Delete", "Account">>, <<"Store", "Account">>,
     <<"Store", "TemporaryCode">>, <<"Delete", "TemporaryCode">>,
     <<"Store", "EmailItem">>}

RepoOps == RLocked \cup WLocked

LockKind(o) == IF o \in RLocked THEN "r" ELSE "w"

\* UpdateTabLayout and DeleteWidgetFromTab of sqlite.go take no lock themselves:
\* they call GetTab and then StoreTab, each locking on its own.  Behind the
\* decorator the whole operation is one locked call.
Composites == {<<"Update", "TabLayout">>, <<"Delete", "WidgetFromTab">>}

Segments(o) ==
    IF ~Decorated /\ o \in Composites
      THEN << <<"Get", "Tab">>, <<"Store", "Tab">> >>
      ELSE <<o>>

\* Locks taken by the calls a locked method makes while it holds its lock:
\* GetTab reads its widgets through getWidgetWithoutLock (sqlite.go) or through
\* the undecorated repository (part_001); the other nested calls are likewise
\* unlocked.
NestedLocksMutant(s) == IF s = <<"Get", "Tab">> THEN <<"r">> ELSE <<>>
NestedLocks(s) == <<>>

\* "defer r.unlock(...)" / "defer r.runlock(...)": released whatever is returned.
DeferredReleaseMutant(result) == result = "ok"
DeferredRelease(result) == TRUE

\* sync.RWMutex: a writer that has announced itself keeps new readers out and
\* waits for the readers inside to leave.
WriterPending == \E q \in Procs : pc[q] = "drain"
MayRLock == rwMutex.w = NoProc /\ ~WriterPending
ReadersGoneMutant(readers) == TRUE
ReadersGone(readers) == readers = {}

Segment(p) == Segments(lk[p].o)[lk[p].seg]

CallRepo(p) ==
    /\ pc[p] = "idle"
    /\ "Repository" \in cfg.roles[p]
    /\ lk[p].calls < MaxCalls
    /\ \E o \in RepoOps :
         lk' = [lk EXCEPT ![p] = [NoLk EXCEPT !.o = o, !.seg = 1, !.calls = lk[p].calls + 1]]
    /\ pc' = [pc EXCEPT ![p] = "waitLock"]
    /\ res' = [res EXCEPT ![p] = ""]
    /\ UNCHANGED <<cfg, rwMutex, op, faulted, emailRows, feedRows, feedSeq, cur, snap, direct, data>>
    /\ UNCHANGED tabVars

\* RLock, or the first half of Lock.
Acquire(p) ==
    /\ pc[p] = "waitLock"
    /\ MayRLock
    /\ IF LockKind(Segment(p)) = "r"
         THEN /\ rwMutex' = [rwMutex EXCEPT !.r = @ \cup {p}]
              /\ lk' = [lk EXCEPT ![p].r = @ + 1]
              /\ pc' = [pc EXCEPT ![p] = "inside"]
         ELSE /\ pc' = [pc EXCEPT ![p] = "drain"]
              /\ UNCHANGED <<rwMutex, lk>>
    /\ UNCHANGED <<cfg, op, res, faulted, emailRows, feedRows, feedSeq, cur, snap, direct, data>>
    /\ UNCHANGED tabVars

\* The second half of Lock: the readers have left.
Drain(p) ==
    /\ pc[p] = "drain"
    /\ ReadersGone(rwMutex.r)
    /\ rwMutex' = [rwMutex EXCEPT !.w = p]
    /\ lk' = [lk EXCEPT ![p].w = @ + 1]
    /\ pc' = [pc EXCEPT ![p] = "inside"]
    /\ UNCHANGED <<cfg, op, res, faulted, emailRows, feedRows, feedSeq, cur, snap, direct, data>>
    /\ UNCHANGED tabVars

\* The wrapped call: its nested locks if it takes any, then its return, the
\* deferred release, and the next locking call of a composite.
Inside(p) ==
    /\ pc[p] = "inside"
    /\ LET need == NestedLocks(Segment(p))
           more == lk[p].seg < Len(Segments(lk[p].o))
       IN  IF lk[p].nest < Len(need)
             THEN /\ MayRLock
                  /\ lk' = [lk EXCEPT ![p].nest = @ + 1, ![p].r = @ + 1]
                  /\ rwMutex' = [rwMutex EXCEPT !.r = @ \cup {p}]
                  /\ UNCHANGED <<pc, res>>
             ELSE \E fail \in Faults, stop \in (IF more THEN BOOLEAN ELSE {FALSE}) :
                    LET result == IF fail THEN "storage"
                                  ELSE IF stop THEN "invalid" ELSE "ok"
                        free == DeferredRelease(result)
                        next == result = "ok" /\ more
                    IN  /\ rwMutex' =
                              IF free
                                THEN [w |-> IF rwMutex.w = p THEN NoProc ELSE rwMutex.w,
                                      r |-> rwMutex.r \ {p}]
                                ELSE rwMutex
                        /\ lk' = [lk EXCEPT
                                    ![p].r = IF free THEN 0 ELSE @,
                                    ![p].w = IF free THEN 0 ELSE @,
                                    ![p].nest = 0,
                                    ![p].seg = IF next THEN @ + 1 ELSE 0,
                                    ![p].o = IF next THEN @ ELSE <<>>]
                        /\ pc' = [pc EXCEPT ![p] = IF next THEN "waitLock" ELSE "done"]
                        /\ res' = [res EXCEPT ![p] = IF next THEN "" ELSE result]
    /\ UNCHANGED <<cfg, op, faulted, emailRows, feedRows, feedSeq, cur, snap, direct, data>>
    /\ UNCHANGED tabVars

ReturnRepo(p) ==
    /\ pc[p] = "done"
    /\ lk[p].calls < MaxCalls
    /\ pc' = [pc EXCEPT ![p] = "idle"]
    /\ res' = [res EXCEPT ![p] = ""]
    /\ UNCHANGED <<cfg, rwMutex, op, faulted, emailRows, feedRows, feedSeq, cur, snap, lk, direct, data>>
    /\ UNCHANGED tabVars

\* ------------------------------------- decorated and undecorated, side by side
FeedIDs == 1..MaxCalls

Call(name, guid, version, item, url, id, fail) ==
    [name |-> name, guid |-> guid, version |-> version, item |-> item,
     url |-> url, id |-> id, fail |-> fail]

WrapOps ==
    {Call("StoreEmailItem", g, v, i, "", 0, f) :
        g \in GUIDs, v \in 0..MaxVersion, i \in Items, f \in BOOLEAN}
    \cup {Call("GetEmailItem", g, v, "", "", 0, f) :
        g \in GUIDs, v \in 0..MaxVersion, f \in BOOLEAN}
    \cup {Call("GetOrCreateFeedID", "", 0, "", u, 0, f) : u \in URLs, f \in BOOLEAN}
    \cup {Call("GetFeed", "", 0, "", "", id, f) : id \in FeedIDs, f \in BOOLEAN}

OpPair(name) ==
    CASE name = "StoreEmailItem" -> <<"Store", "EmailItem">>
      [] name = "GetEmailItem" -> <<"Get", "EmailItem">>
      [] name = "GetOrCreateFeedID" -> <<"GetOrCreate", "FeedID">>
      [] name = "GetFeed" -> <<"Get", "Feed">>

Outcome(t, r, v) == [t |-> t, res |-> r, val |-> v]

\* One call run alone on the SQLite backend without locks (part_001), on
\* tables t; o.fail: its first statement fails.
BackendCall(o, t) ==
    IF o.fail THEN Outcome(t, "storage", {})
    ELSE CASE o.name = "StoreEmailItem" ->
                LET old == KeyRows(t.email, o.guid)
                    currentVersion == IF old = {} THEN 0 ELSE Max({r.version : r \in old})
                    do == EmailDecision(old # {}, currentVersion, o.version)
                    row == EmailRow(o.guid, o.version, o.item)
                IN  Outcome([t EXCEPT !.email = IF do = "none" THEN @ ELSE (@ \ old) \cup {row}],
                            "ok", {})
           [] o.name = "GetEmailItem" ->
                Outcome(t, "ok", {r.item : r \in {x \in KeyRows(t.email, o.guid) :
                                                     x.version >= o.version}})
           [] o.name = "GetOrCreateFeedID" ->
                LET ids == FeedLookup(t.feeds, o.url)
                    new == Max({r.id : r \in t.feeds}) + 1
                IN  IF ids # {} THEN Outcome(t, "ok", ids)
                    ELSE Outcome([t EXCEPT !.feeds = @ \cup {[id |-> new, url |-> o.url]}],
                                 "ok", {new})
           [] o.name = "GetFeed" ->
                LET rows == {r \in t.feeds : r.id = o.id}
                IN  IF rows = {} THEN Outcome(t, "notfound", {})
                    ELSE Outcome(t, "ok", {r.url : r \in rows})

\* "errors.Cause(err) == sql.ErrNoRows"
IsNotFound(err) == err = "notfound"
\* lockedRepo.IsNotFound
LockedIsNotFound(err) == IsNotFound(err)

\* "return r.repo.StoreEmailItem(ctx, account, version, item)": the decorator
\* hands the call on, same method, same arguments.
DelegateMutant(o) == IF o.name = "StoreEmailItem" THEN [o EXCEPT !.version = 0] ELSE o
Delegate(o) == o

\* The caller makes the call on the undecorated backend, and starts the same
\* call on the decorated one.
CallWrapped(p) ==
    /\ pc[p] = "idle"
    /\ "Wrapped" \in cfg.roles[p]
    /\ Len(snap[p]) < MaxCalls
    /\ \E o \in WrapOps :
         LET d == BackendCall(o, direct.t)
         IN  /\ direct' = [t |-> d.t,
                           out |-> Append(direct.out,
                                          [res |-> d.res, val |-> d.val,
                                           nf |-> IsNotFound(d.res)])]
             /\ snap' = [snap EXCEPT ![p] = StartCall(p, o)]
    /\ pc' = [pc EXCEPT ![p] = "wrapLock"]
    /\ res' = [res EXCEPT ![p] = ""]
    /\ UNCHANGED <<cfg, rwMutex, op, faulted, emailRows, feedRows, feedSeq, cur, lk, data>>
    /\ UNCHANGED tabVars

\* r.rlock(...) or r.lock(...)
WrapLock(p) ==
    /\ pc[p] = "wrapLock"
    /\ MayRLock
    /\ IF LockKind(OpPair(LastCall(p).op.name)) = "r"
         THEN /\ rwMutex' = [rwMutex EXCEPT !.r = @ \cup {p}]
              /\ lk' = [lk EXCEPT ![p].r = @ + 1]
         ELSE /\ ReadersGone(rwMutex.r)
              /\ rwMutex' = [rwMutex EXCEPT !.w = p]
              /\ lk' = [lk EXCEPT ![p].w = @ + 1]
    /\ pc' = [pc EXCEPT ![p] = "wrapInside"]
    /\ UNCHANGED <<cfg, op, res, faulted, emailRows, feedRows, feedSeq, cur, snap, direct, data>>
    /\ UNCHANGED tabVars

\* The delegated call, its return and the deferred release.
WrapDelegate(p) ==
    /\ pc[p] = "wrapInside"
    /\ LET d == BackendCall(Delegate(LastCall(p).op), Tables)
       IN  /\ emailRows' = d.t.email
           /\ feedRows' = d.t.feeds
           /\ snap' = [snap EXCEPT ![p] = EndCall(p, d.res, d.val)]
           /\ res' = [res EXCEPT ![p] = d.res]
    /\ rwMutex' = [w |-> IF rwMutex.w = p THEN NoProc ELSE rwMutex.w, r |-> rwMutex.r \ {p}]
    /\ lk' = [lk EXCEPT ![p].r = 0, ![p].w = 0]
    /\ pc' = [pc EXCEPT ![p] = "done"]
    /\ UNCHANGED <<cfg, op, faulted, feedSeq, cur, direct, data>>
    /\ UNCHANGED tabVars

\* --------------------------------------------- the tab operations, gate first
TabOps == {"Tab", "EditTab", "DeleteTab", "NewWidget", "EditWidget", "DeleteWidget",
           "UpdateLayout"}

\* The repository calls a tab operation makes once the caller is let in.
Body(o) ==
    CASE o.name = "Tab" -> <<"GetTab">>
      [] o.name = "EditTab" -> <<"GetTab", "StoreTab">>
      [] o.name = "DeleteTab" -> <<"DeleteTab">>
      [] o.name = "NewWidget" ->
           <<IF o.widget.Type = "feed" THEN "GetOrCreateFeedID" ELSE "GetAccount",
             "GetTab", "StoreWidget", "StoreTab">>
      [] o.name = "EditWidget" -> <<"GetWidget", "StoreWidget">>
      [] o.name = "DeleteWidget" -> <<"DeleteWidgetFromTab", "DeleteWidget">>
      [] o.name = "UpdateLayout" -> <<"UpdateTabLayout">>

WriteCalls == {"StoreTab", "DeleteTab", "GetOrCreateFeedID", "StoreWidget",
               "DeleteWidgetFromTab", "DeleteWidget", "UpdateTabLayout"}

\* The arguments of each operation.
TabOpInputs ==
    {[NoOp EXCEPT !.name = n] : n \in {"Tab", "DeleteTab"}}
    \cup {[NoOp EXCEPT !.name = "EditTab", !.title = t] : t \in Titles}
    \cup {[NoOp EXCEPT !.name = "NewWidget", !.widget = w] : w \in WidgetInputs}
    \cup {[NoOp EXCEPT !.name = n, !.widgetID = id] :
             n \in {"EditWidget", "DeleteWidget"}, id \in 0..MaxWidgets}
    \cup {[NoOp EXCEPT !.name = "UpdateLayout", !.layout = l] : l \in LayoutInputs}

\* What IsTabAccessAllowed hands back: nil, the wrapped error of the SELECT, or
\* errors.New("Tab access not allowed").
IsTabAccessAllowed(c, fail) ==
    IF fail THEN "storage" ELSE IF ~c.access THEN "notAllowed" ELSE ""

\* One repository call of the body, run alone: the tables and locals after it,
\* and its error ("" for nil).
RepoCall(call, p, url, fail, cascade) ==
    LET o == op[p]
        same == [tab |-> tabRow, widgets |-> widgetRows, wseq |-> widgetSeq,
                 feeds |-> feedRows, fseq |-> feedSeq,
                 ltab |-> loc[p].tab, lwidget |-> loc[p].widget, err |-> ""]
        got == ResolveWidgets(DB, tabRow.layout, {})
    IN  IF fail /\ call # "GetWidget" THEN [same EXCEPT !.err = "storage"]
        ELSE CASE call = "GetTab" ->
                    [same EXCEPT !.ltab = [Title |-> tabRow.title, Widgets |-> got]]
               [] call = "StoreTab" ->
                    LET title == IF o.name = "EditTab" THEN o.title ELSE loc[p].tab.Title
                        widgets == IF o.name = "NewWidget"
                                     THEN AppendFirst(loc[p].tab.Widgets, loc[p].widget)
                                     ELSE loc[p].tab.Widgets
                    IN  [same EXCEPT !.tab = [title |-> title, layout |-> FormatLayout(widgets)]]
               [] call = "DeleteTab" ->
                    [same EXCEPT !.tab = NoPre.tab,
                                 !.widgets = IF cascade THEN {} ELSE @]
               [] call = "GetOrCreateFeedID" ->
                    IF FeedLookup(feedRows, url) # {} THEN same
                    ELSE [same EXCEPT
                            !.feeds = @ \cup {[id |-> NewFeedID, url |-> url]},
                            !.fseq = IF cfg.backend = "postgresql" THEN @ + 1 ELSE @]
               [] call = "GetAccount" -> same
               [] call = "GetWidget" ->
                    [same EXCEPT !.lwidget = GetWidget(DB, TabID, o.widgetID, fail)]
               [] call = "StoreWidget" ->
                    LET w == IF o.name = "NewWidget" THEN o.widget ELSE loc[p].widget
                        id == IF w.ID > 0 THEN w.ID ELSE NewWidgetID(DB)
                        write == [kind |-> IF w.ID > 0 THEN "updateWidget" ELSE "insertWidget",
                                  id |-> id, tab_id |-> TabID, type |-> w.Type]
                    IN  [same EXCEPT
                            !.widgets = ApplyWrite(DB, write).widgets,
                            !.wseq = IF w.ID = 0 /\ cfg.backend = "postgresql" THEN @ + 1 ELSE @,
                            !.lwidget = [w EXCEPT !.ID = id]]
               [] call = "DeleteWidgetFromTab" ->
                    LET at == Scan(got, o.widgetID)
                    IN  IF ~at.found THEN [same EXCEPT !.err = "notFound"]
                        ELSE [same EXCEPT !.tab.layout =
                                             FormatLayout(RemoveFrom(got, at.i, at.j))]
               [] call = "DeleteWidget" ->
                    [same EXCEPT !.widgets =
                        ApplyWrite(DB, [kind |-> "deleteWidget", id |-> o.widgetID,
                                        tab_id |-> TabID]).widgets]
               [] call = "UpdateTabLayout" ->
                    LET verdict == ValidateLayout(got, o.layout)
                    IN  IF verdict # "" THEN [same EXCEPT !.err = verdict]
                        ELSE [same EXCEPT !.tab.layout =
                                             FormatLayout(Rearrange(got, o.layout))]

\* The head of every tab operation: CurrentUserID, IsTabAccessAllowed and, when
\* that gives an error, CurrentUserIsAdmin.
CallTabOp(p) ==
    /\ pc[p] = "idle"
    /\ "TabOps" \in cfg.roles[p]
    /\ \E o \in TabOpInputs, c \in Callers, u \in URLs, fail \in Faults :
         LET err == IsTabAccessAllowed(c, fail)
         IN  /\ op' = [op EXCEPT ![p] = o]
             /\ snap' = [snap EXCEPT ![p] =
                           StartCall(p, [name |-> o.name, caller |-> c, url |-> u])]
             /\ IF Allowed(c, fail)
                  THEN /\ pc' = [pc EXCEPT ![p] = "body"]
                       /\ res' = [res EXCEPT ![p] = ""]
                  ELSE /\ pc' = [pc EXCEPT ![p] = "done"]
                       /\ res' = [res EXCEPT ![p] = err]
    /\ pre' = [pre EXCEPT ![p] = DB]
    /\ loc' = [loc EXCEPT ![p] = NoLoc]
    /\ UNCHANGED <<cfg, repoTx, tabRow, widgetRows, widgetSeq, rwMutex, tx, seen, faulted,
                   emailRows, feedRows, feedSeq, cur, lk, direct, data>>

\* The next repository call of the operation.
RepoStep(p) ==
    /\ pc[p] = "body"
    /\ \E fail \in Faults, cascade \in BOOLEAN :
         LET calls == Body(op[p])
             call == calls[loc[p].k]
             d == RepoCall(call, p, LastCall(p).op.url, fail,
                           cascade \/ cfg.backend = "postgresql")
             last == d.err # "" \/ loc[p].k = Len(calls)
         IN  /\ tabRow' = d.tab
             /\ widgetRows' = d.widgets
             /\ widgetSeq' = d.wseq
             /\ feedRows' = d.feeds
             /\ feedSeq' = d.fseq
             /\ loc' = [loc EXCEPT ![p].tab = d.ltab, ![p].widget = d.lwidget,
                                   ![p].k = @ + 1,
                                   ![p].writes = IF call \in WriteCalls /\ d.err # "storage"
                                                   THEN Append(@, call) ELSE @]
             /\ pc' = [pc EXCEPT ![p] = IF last THEN "done" ELSE "body"]
             /\ res' = [res EXCEPT ![p] = IF d.err # "" THEN d.err
                                          ELSE IF last THEN "ok" ELSE ""]
    /\ UNCHANGED <<cfg, repoTx, rwMutex, op, tx, seen, pre, faulted, emailRows, cur, snap,
                   lk, direct, data>>

\* --------------------------------------------------------- item read-state
Users == {"alice", "bob"}

\* tj_feeditem_user: [user_id, feed_id, guid, read], primary key the first three.
ReadRow(u, f, g, v) == [user_id |-> u, feed_id |-> f, guid |-> g, read |-> v]
ReadKeyRows(rows, u, f, g) ==
    {r \in rows : r.user_id = u /\ r.feed_id = f /\ r.guid = g}

\* "SELECT read FROM tj_feeditem_user WHERE ..." scanned into a variable holding
\* dest: the stored value when there is a row, dest untouched on sql.ErrNoRows.
SelectRead(rows, u, f, g, dest) ==
    LET found == ReadKeyRows(rows, u, f, g)
    IN  IF found = {} THEN [norows |-> TRUE, read |-> dest]
        ELSE [norows |-> FALSE, read |-> (CHOOSE r \in found : TRUE).read]

\* "read := false" at the top of each round of the loop of AreItemsRead.
LoopReadMutant(previous) == previous
LoopRead(previous) == FALSE

\* AreItemsRead: one SELECT per GUID, in order; failAt: the round whose SELECT
\* fails with something else than sql.ErrNoRows (0: none).
RECURSIVE AreItemsReadFrom(_, _, _, _, _, _, _, _)
AreItemsReadFrom(rows, u, f, guids, i, acc, previous, failAt) ==
    IF i > Len(guids) THEN [res |-> acc, err |-> ""]
    ELSE IF i = failAt THEN [res |-> <<>>, err |-> "storage"]
    ELSE LET read == SelectRead(rows, u, f, guids[i], LoopRead(previous)).read
         IN  AreItemsReadFrom(rows, u, f, guids, i + 1, Append(acc, read), read, failAt)

AreItemsRead(rows, u, f, guids, failAt) ==
    AreItemsReadFrom(rows, u, f, guids, 1, <<>>, FALSE, failAt)

\* SetItemRead: the SELECT scans into the parameter read itself, then INSERT
\* when there was no row, UPDATE ... SET read=$4 otherwise.
SetItemRead(rows, u, f, g, read, fail) ==
    LET sel == SelectRead(rows, u, f, g, read)
        row == ReadRow(u, f, g, sel.read)
    IN  IF fail THEN [rows |-> rows, err |-> "storage"]
        ELSE IF sel.norows THEN [rows |-> rows \cup {row}, err |-> ""]
        ELSE [rows |-> (rows \ ReadKeyRows(rows, u, f, g)) \cup {row}, err |-> ""]

GuidLists == Seqs(GUIDs, MaxGuids)

Result(err) == IF err = "" THEN "ok" ELSE err

CallAreItemsRead(p) ==
    /\ pc[p] = "idle"
    /\ "AreItemsRead" \in cfg.roles[p]
    /\ Len(snap[p]) < MaxCalls
    /\ \E u \in Users, f \in FeedIDs, guids \in GuidLists :
         \E failAt \in (IF cfg.faults THEN 0..Len(guids) ELSE {0}) :
            LET d == AreItemsRead(data.reads, u, f, guids, failAt)
                o == [name |-> "AreItemsRead", user |-> u, feed |-> f, guids |-> guids,
                      read |-> FALSE, was |-> data.reads]
            IN  /\ snap' = [snap EXCEPT ![p] =
                              Append(@, [op |-> o, before |-> Tables, res |-> Result(d.err),
                                         id |-> d.res])]
                /\ res' = [res EXCEPT ![p] = Result(d.err)]
    /\ pc' = [pc EXCEPT ![p] = "done"]
    /\ UNCHANGED <<cfg, rwMutex, op, faulted, emailRows, feedRows, feedSeq, cur, lk, direct,
                   data>>
    /\ UNCHANGED tabVars

CallSetItemRead(p) ==
    /\ pc[p] = "idle"
    /\ "SetItemRead" \in cfg.roles[p]
    /\ Len(snap[p]) < MaxCalls
    /\ \E u \in Users, f \in FeedIDs, g \in GUIDs, v \in BOOLEAN, fail \in Faults :
         LET d == SetItemRead(data.reads, u, f, g, v, fail)
             o == [name |-> "SetItemRead", user |-> u, feed |-> f, guids |-> <<g>>,
                   read |-> v, was |-> data.reads]
         IN  /\ snap' = [snap EXCEPT ![p] =
                           Append(@, [op |-> o, before |-> Tables, res |-> Result(d.err),
                                      id |-> <<>>])]
             /\ res' = [res EXCEPT ![p] = Result(d.err)]
             /\ data' = [data EXCEPT !.reads = d.rows]
    /\ pc' = [pc EXCEPT ![p] = "done"]
    /\ UNCHANGED <<cfg, rwMutex, op, faulted, emailRows, feedRows, feedSeq, cur, lk, direct>>
    /\ UNCHANGED tabVars

\* ------------------------------------------------------------ specifications
\* faults: statements may fail; selectFaults: so may the widget SELECTs
\* of GetTab, whose error GetWidget does not report.
Run(b, roles, faults, selectFaults, anyID) ==
    [backend |-> b, roles |-> roles, faults |-> faults,
     selectFaults |-> selectFaults, anyID |-> anyID]

\* repo.UpdateTabLayout through App.UpdateLayout: one caller, one call, from
\* every tab state, with storage failures.
InitLayout ==
    \E b \in Backends :
        InitWith(Run(b, [p \in {1} |-> {"UpdateLayout"}], TRUE, FALSE, FALSE),
                 TabStatesInOrder(MaxPerm))

NextLayout ==
    /\ UNCHANGED others
    /\ \E p \in ActiveProcs :
           \/ CallUpdateLayout(p)
           \/ LockOp(p)
           \/ Begin(p)
           \/ GetTabRow(p)
           \/ GetWidgets(p)
           \/ StoreTab(p)
           \/ EndTx(p)

SpecLayout == InitLayout /\ [][NextLayout]_vars

\* repo.DeleteWidgetFromTab and repo.DeleteWidget through App.DeleteWidget.
InitDelete ==
    \E b \in Backends :
        InitWith(Run(b, [p \in {1} |-> {"DeleteWidget"}], TRUE, TRUE, FALSE),
                 TabStates(MaxWidgets))

NextDelete ==
    /\ UNCHANGED others
    /\ \E p \in ActiveProcs :
           \/ CallDeleteWidget(p)
           \/ LockOp(p)
           \/ Begin(p)
           \/ GetTabRow(p)
           \/ GetWidgets(p)
           \/ StoreTab(p)
           \/ EndTx(p)
           \/ DeleteWidgetRow(p)

SpecDelete == InitDelete /\ [][NextDelete]_vars

\* App.NewWidget with any widget the HTTP handler can decode.
InitNew ==
    \E b \in Backends :
        InitWith(Run(b, [p \in {1} |-> {"NewWidget"}], TRUE, TRUE, TRUE),
                 TabStates(MaxWidgets))

NextNew ==
    /\ UNCHANGED others
    /\ \E p \in ActiveProcs :
           \/ CallNewWidget(p)
           \/ GetTabRow(p)
           \/ GetWidgets(p)
           \/ StoreWidget(p)
           \/ StoreTab(p)

SpecNew == InitNew /\ [][NextNew]_vars

\* runInTransaction with every closure of up to MaxScript calls.
InitTx ==
    \E b \in Backends :
        InitWith(Run(b, [p \in {1} |-> {"RunTx"}], TRUE, FALSE, FALSE),
                 TabStatesInOrder(MaxPerm))

NextTx ==
    /\ UNCHANGED others
    /\ \E p \in ActiveProcs :
           \/ CallRunTx(p)
           \/ LockOp(p)
           \/ Begin(p)
           \/ ClosureWrite(p)
           \/ ClosureNested(p)
           \/ ClosureReturn(p)
           \/ EndTx(p)

SpecTx == InitTx /\ [][NextTx]_vars

\* Two callers on the same tab, one call each, no storage failure.
Roles == <<{"UpdateLayout", "DeleteWidget"}, {"EditTab", "NewWidget"}>>

InitConc ==
    \E b \in Backends :
        InitWith(Run(b, [p \in 1..NumProcs |-> Roles[((p - 1) % 2) + 1]],
                     FALSE, FALSE, FALSE),
                 TabStatesInOrder(MaxPerm))

NextConc ==
    /\ UNCHANGED others
    /\ \E p \in ActiveProcs :
           \/ CallNewWidget(p)
           \/ CallDeleteWidget(p)
           \/ CallUpdateLayout(p)
           \/ CallEditTab(p)
           \/ LockOp(p)
           \/ Begin(p)
           \/ GetTabRow(p)
           \/ GetWidgets(p)
           \/ StoreWidget(p)
           \/ StoreTab(p)
           \/ EndTx(p)
           \/ DeleteWidgetRow(p)

SpecConc == InitConc /\ [][NextConc]_vars

\* The tab of the specifications that are about other tables.
EmptyTab == {[layout |-> <<>>, orphan |-> FALSE]}

\* The cache before a call: the other item of the account, and the item of
\* "g1" absent or cached at any version.
EmailStates ==
    {{EmailRow("g2", 1, "a")}} \cup
    {{EmailRow("g2", 1, "a"), EmailRow("g1", v, "a")} : v \in 0..MaxVersion}

\* StoreEmailItem alone: one caller, one call, with storage failures.
InitEmail ==
    /\ \E b \in AllBackends :
          InitCore(Run(b, [p \in {1} |-> {"StoreEmailItem"}], TRUE, FALSE, FALSE), EmptyTab)
    /\ emailRows \in EmailStates
    /\ feedRows = {}
    /\ feedSeq = 1
    /\ cur = [p \in Procs |-> NoCur]
    /\ snap = [p \in Procs |-> <<>>]
    /\ lk = [p \in Procs |-> NoLk]
    /\ direct = NoDirect
    /\ data = NoData

NextEmail ==
    \E p \in ActiveProcs :
        \/ CallStoreEmailItem(p)
        \/ LockW(p)
        \/ EmailSelect(p)
        \/ EmailWrite(p)

SpecEmail == InitEmail /\ [][NextEmail]_vars

\* Concurrent StoreEmailItem calls, no storage failure.
InitEmailConc ==
    /\ \E b \in AllBackends :
          InitCore(Run(b, [p \in 1..NumProcs |-> {"StoreEmailItem"}], FALSE, FALSE, FALSE),
                   EmptyTab)
    /\ emailRows \in EmailStates
    /\ feedRows = {}
    /\ feedSeq = 1
    /\ cur = [p \in Procs |-> NoCur]
    /\ snap = [p \in Procs |-> <<>>]
    /\ lk = [p \in Procs |-> NoLk]
    /\ direct = NoDirect
    /\ data = NoData

SpecEmailConc == InitEmailConc /\ [][NextEmail]_vars

\* GetOrCreateFeedID, one caller calling up to MaxCalls times, with storage
\* failures, from an empty table or one that knows "u1".
InitFeedWith(roles, faults) ==
    /\ \E b \in AllBackends : InitCore(Run(b, roles, faults, FALSE, FALSE), EmptyTab)
    /\ emailRows = {}
    /\ \E known \in BOOLEAN :
          /\ feedRows = IF known THEN {[id |-> 1, url |-> "u1"]} ELSE {}
          /\ feedSeq = IF known THEN 2 ELSE 1
    /\ cur = [p \in Procs |-> NoCur]
    /\ snap = [p \in Procs |-> <<>>]
    /\ lk = [p \in Procs |-> NoLk]
    /\ direct = NoDirect
    /\ data = NoData

InitFeed == InitFeedWith([p \in {1} |-> {"GetOrCreateFeedID"}], TRUE)

NextFeed ==
    \E p \in ActiveProcs :
        \/ CallGetOrCreateFeedID(p)
        \/ LockW(p)
        \/ FeedSelect(p)
        \/ FeedInsert(p)
        \/ Return(p)

SpecFeed == InitFeed /\ [][NextFeed]_vars

\* Concurrent GetOrCreateFeedID calls, no storage failure.
InitFeedConc == InitFeedWith([p \in 1..NumProcs |-> {"GetOrCreateFeedID"}], FALSE)

SpecFeedConc == InitFeedConc /\ [][NextFeed]_vars

\* Repository calls through the lock decorator, or on sqlite.go with its
\* package-level lock: NumProcs callers, MaxCalls calls each, with failures.
InitLock ==
    /\ InitOthers
    /\ \E b \in {"sqlite", "sqliteLocked"} :
          InitCore(Run(b, [p \in 1..NumProcs |-> {"Repository"}], TRUE, FALSE, FALSE),
                   EmptyTab)

NextLock ==
    \E p \in ActiveProcs :
        \/ CallRepo(p)
        \/ Acquire(p)
        \/ Drain(p)
        \/ Inside(p)
        \/ ReturnRepo(p)

SpecLock == InitLock /\ [][NextLock]_vars

\* The same with the scheduler's fairness: a caller that can take its lock, or
\* whose backend call can return, does so.
SpecLockLive ==
    /\ InitLock /\ [][NextLock]_vars
    /\ \A p \in Procs : WF_vars(Acquire(p) \/ Drain(p) \/ Inside(p))

\* One caller making up to MaxCalls repository calls one at a time, each on
\* the undecorated backend and on the decorated one, from equal tables.
InitWrap ==
    /\ InitCore(Run("sqliteLocked", [p \in {1} |-> {"Wrapped"}], TRUE, FALSE, FALSE),
                EmptyTab)
    /\ emailRows \in EmailStates
    /\ \E known \in BOOLEAN :
          feedRows = IF known THEN {[id |-> 1, url |-> "u1"]} ELSE {}
    /\ feedSeq = 1
    /\ cur = [p \in Procs |-> NoCur]
    /\ snap = [p \in Procs |-> <<>>]
    /\ lk = [p \in Procs |-> NoLk]
    /\ direct = [t |-> Tables, out |-> <<>>]
    /\ data = NoData

NextWrap ==
    \E p \in ActiveProcs :
        \/ CallWrapped(p)
        \/ WrapLock(p)
        \/ WrapDelegate(p)
        \/ Return(p)

SpecWrap == InitWrap /\ [][NextWrap]_vars

\* The seven tab operations of the service layer: one caller, one call, every
\* caller identity, with storage failures.
InitGate ==
    /\ \E b \in Backends :
          InitCore(Run(b, [p \in {1} |-> {"TabOps"}], TRUE, FALSE, FALSE),
                   TabStatesInOrder(MaxPerm))
    /\ emailRows = {}
    /\ \E known \in BOOLEAN :
          /\ feedRows = IF known THEN {[id |-> 1, url |-> "u1"]} ELSE {}
          /\ feedSeq = IF known THEN 2 ELSE 1
    /\ cur = [p \in Procs |-> NoCur]
    /\ snap = [p \in Procs |-> <<>>]
    /\ lk = [p \in Procs |-> NoLk]
    /\ direct = NoDirect
    /\ data = NoData

NextGate ==
    \E p \in ActiveProcs :
        \/ CallTabOp(p)
        \/ RepoStep(p)

SpecGate == InitGate /\ [][NextGate]_vars

\* The read-states SetItemRead calls can have left for GUID "g1": at most one
\* row per (user, feed, guid).
ReadStates ==
    {rows \in SUBSET ({ReadRow(u, 1, "g1", v) : u \in Users, v \in BOOLEAN}
                          \cup {ReadRow("alice", 2, "g1", v) : v \in BOOLEAN}) :
        \A r1, r2 \in rows :
            (r1.user_id = r2.user_id /\ r1.feed_id = r2.feed_id) => r1 = r2}

\* The other tables empty, the tab tables as after set-up.
InitPlain(b, roles, faults) ==
    /\ InitCore(Run(b, roles, faults, FALSE, FALSE), EmptyTab)
    /\ emailRows = {}
    /\ feedRows = {}
    /\ feedSeq = 1
    /\ cur = [p \in Procs |-> NoCur]
    /\ snap = [p \in Procs |-> <<>>]
    /\ lk = [p \in Procs |-> NoLk]
    /\ direct = NoDirect

\* AreItemsRead and SetItemRead, one caller calling up to MaxCalls times, with
\* storage failures.
InitReads ==
    /\ \E b \in {"postgresql", "sqliteBare"} :
          InitPlain(b, [p \in {1} |-> {"AreItemsRead", "SetItemRead"}], TRUE)
    /\ \E rows \in ReadStates : data = [NoData EXCEPT !.reads = rows]

NextReads ==
    \E p \in ActiveProcs :
        \/ CallAreItemsRead(p)
        \/ CallSetItemRead(p)
        \/ Return(p)

SpecReads == InitReads /\ [][NextReads]_vars

\* ------------------------------------------------------------------- claims
PreLayout(p) == ParseLayout(pre[p].tab.layout)
PreIDs(p) == Range(Flatten(PreLayout(p)))
NowLayout == ParseLayout(tabRow.layout)

\* The tab as the data model wants it when the call starts: every id of the
\* layout has a widget row of this tab, and no id is in the layout twice.
PreValid(p) ==
    /\ NoDup(Flatten(PreLayout(p)))
    /\ \A id \in PreIDs(p) :
          \E r \in pre[p].widgets : r.id = id /\ r.tab_id = TabID

\* The repository method was reached: the caller passed the access check.
Invoked(p) == res[p] # "accessDenied"

IsPermutationOfTab(p, layout) ==
    /\ Range(Flatten(layout)) \subseteq PreIDs(p)
    /\ NoDup(Flatten(layout))
    /\ PreIDs(p) \subseteq Range(Flatten(layout))

\* C1: on a valid tab and without storage failure, UpdateTabLayout succeeds
\* exactly when the ids of the new layout, over all columns, are a permutation
\* of the ids of the stored layout (each in the tab, none twice, none missing),
\* whatever the number of columns; on success the stored layout is the new one.
C1_UpdateLayoutIffPermutation ==
    \A p \in ActiveProcs :
        (pc[p] = "done" /\ op[p].name = "UpdateLayout" /\ Invoked(p)
            /\ PreValid(p) /\ ~faulted[p])
        => /\ (res[p] = "ok") <=> IsPermutationOfTab(p, op[p].layout)
           /\ res[p] = "ok" => NowLayout = op[p].layout

C1_Witness ==
    \E p \in ActiveProcs :
        /\ pc[p] = "done" /\ op[p].name = "UpdateLayout" /\ res[p] = "ok"
        /\ PreValid(p) /\ ~faulted[p]
        /\ Len(Flatten(op[p].layout)) = 2
        /\ Len(op[p].layout) # Len(PreLayout(p))
        /\ Flatten(op[p].layout) # Flatten(PreLayout(p))
        /\ NowLayout = op[p].layout

\* C2: when UpdateTabLayout fails, for an unknown, duplicated or missing id or
\* for a storage error, the tab's layout, its title and every widget row are
\* as they were before the call.
C2_FailedUpdateLayoutChangesNothing ==
    \A p \in ActiveProcs :
        (pc[p] = "done" /\ op[p].name = "UpdateLayout" /\ Invoked(p) /\ res[p] # "ok")
        => /\ tabRow = pre[p].tab
           /\ widgetRows = pre[p].widgets

C2_Witness ==
    \E p \in ActiveProcs :
        /\ pc[p] = "done" /\ op[p].name = "UpdateLayout"
        /\ res[p] = "commitFailed"
        /\ op[p].layout # PreLayout(p)
        /\ tabRow = pre[p].tab

\* C3: DeleteWidgetFromTab of a widget that is in the layout of a valid tab
\* takes exactly one entry, that id, out of its column, keeps the order of the
\* rest of the column and every other column, and leaves the widget rows alone.
WithoutID(col, id) ==
    LET Keep(x) == x # id IN SelectSeq(col, Keep)

C3_DeleteFromTabRemovesOneEntry ==
    \A p \in ActiveProcs :
        (op[p].name = "DeleteWidget" /\ PreValid(p) /\ ~faulted[p]
            /\ op[p].widgetID \in PreIDs(p))
        => /\ pc[p] = "done" => res[p] \in {"accessDenied", "ok", "storage"}
           /\ pc[p] = "deleteWidget" =>
                /\ Len(NowLayout) = Len(PreLayout(p))
                /\ \A i \in DOMAIN NowLayout :
                      /\ NowLayout[i] = WithoutID(PreLayout(p)[i], op[p].widgetID)
                      /\ Len(NowLayout[i]) >= Len(PreLayout(p)[i]) - 1
                /\ Len(Flatten(NowLayout)) = Len(Flatten(PreLayout(p))) - 1
                /\ tabRow.title = pre[p].tab.title
                /\ widgetRows = pre[p].widgets

C3_Witness ==
    \E p \in ActiveProcs :
        /\ pc[p] = "deleteWidget" /\ PreValid(p) /\ ~faulted[p]
        /\ \E i \in DOMAIN PreLayout(p) :
              /\ Len(PreLayout(p)[i]) = 3
              /\ PreLayout(p)[i][2] = op[p].widgetID
              /\ NowLayout[i] = <<PreLayout(p)[i][1], PreLayout(p)[i][3]>>

\* C4: DeleteWidgetFromTab of an id that is in no column of a valid tab fails
\* with "widget not found" and leaves the stored layout as it was.
C4_DeleteAbsentWidgetFails ==
    \A p \in ActiveProcs :
        (op[p].name = "DeleteWidget" /\ PreValid(p) /\ ~faulted[p]
            /\ op[p].widgetID \notin PreIDs(p))
        => /\ pc[p] \notin {"storeTab", "deleteWidget"}
           /\ tabRow = pre[p].tab
           /\ (pc[p] = "done" /\ Invoked(p)) => res[p] = "widgetNotFound"

C4_Witness ==
    \E p \in ActiveProcs :
        /\ pc[p] = "done" /\ op[p].name = "DeleteWidget"
        /\ res[p] = "widgetNotFound" /\ ~faulted[p]
        /\ PreIDs(p) # {}
        /\ \E r \in pre[p].widgets : r.id = op[p].widgetID
        /\ tabRow = pre[p].tab

\* C5: App.NewWidget on an accessible tab, for any widget input, a non-zero ID
\* included, stores a new widget row under an id that was neither a row nor in
\* the layout before, and appends exactly that id to the first column (made
\* first when the tab has no column), all other entries staying in place.
C5_NewWidgetFreshIDAppended ==
    \A p \in ActiveProcs :
        (pc[p] = "done" /\ op[p].name = "NewWidget" /\ res[p] = "ok"
            /\ PreValid(p) /\ ~faulted[p])
        => LET id == loc[p].widget.ID
           IN  /\ id \notin PreIDs(p)
               /\ id \notin {r.id : r \in pre[p].widgets}
               /\ widgetRows = pre[p].widgets \cup
                     {[id |-> id, tab_id |-> TabID, type |-> op[p].widget.Type]}
               /\ NowLayout = (IF Len(PreLayout(p)) = 0 THEN <<<<id>>>>
                               ELSE [PreLayout(p) EXCEPT ![1] = Append(@, id)])

\* C6: when App.NewWidget fails after the widget row was stored, nothing of
\* the call remains: no widget row it created, and the layout as before.
C6_FailedNewWidgetLeavesNothing ==
    \A p \in ActiveProcs :
        (pc[p] = "done" /\ op[p].name = "NewWidget" /\ res[p] # "ok")
        => /\ widgetRows = pre[p].widgets
           /\ tabRow = pre[p].tab

\* C7: under any interleaving of App.NewWidget, App.DeleteWidget,
\* App.UpdateLayout and App.EditTab on one tab, in every reachable state each
\* widget id of the stored layout has a widget row of that tab, and no id is in
\* the layout twice.
C7_LayoutIDsHaveRows ==
    /\ \A id \in Range(Flatten(NowLayout)) :
          \E r \in widgetRows : r.id = id /\ r.tab_id = TabID
    /\ NoDup(Flatten(NowLayout))

\* C8: on the embedded backend, with the process-wide lock or the lock
\* decorator, no write of another caller to the tab takes effect between the
\* GetTab of UpdateTabLayout or DeleteWidgetFromTab and their StoreTab: when
\* they store, the tab still is the one they read and validated.
C8_CompositeStoresOverWhatItRead ==
    \A p \in ActiveProcs :
        (Locking /\ op[p].name \in {"UpdateLayout", "DeleteWidget"}
            /\ pc[p] = "storeTab")
        => /\ tabRow.layout = seen[p]
           /\ tabRow.title = loc[p].tab.Title

\* C9: when the closure of runInTransaction returns an error after writing
\* through the view, the caller gets the closure's error and no write of the
\* closure is in the database; until the commit none of the writes is visible,
\* and when the closure returns nil and the commit succeeds all of them are.
C9_RollbackHidesCommitShows ==
    \A p \in ActiveProcs :
        op[p].name = "RunTx"
        => /\ tx[p].active => DB = pre[p]
           /\ (pc[p] = "done" /\ loc[p].ret # "")
                 => res[p] = loc[p].ret /\ DB = pre[p]
           /\ (pc[p] = "done" /\ res[p] = "ok")
                 => loc[p].ret = "" /\ DB = ApplyLog(loc[p].writes, pre[p])

C9_Witness ==
    \E p \in ActiveProcs :
        /\ pc[p] = "done" /\ op[p].name = "RunTx"
        /\ loc[p].ret = "closureError" /\ res[p] = "closureError"
        /\ Len(loc[p].writes) = 2
        /\ ApplyLog(loc[p].writes, pre[p]) # pre[p]
        /\ DB = pre[p]

\* C10: runInTransaction on a transactional view, reached through
\* UpdateTabLayout or DeleteWidgetFromTab of the view, fails at once with the
\* nested-transaction error: no second transaction is begun, the inner closure
\* does not run, nothing is written, and the shared repository never has a
\* transaction set.
C10_NestedTransactionFailsFast ==
    /\ repoTx = FALSE
    /\ \A p \in ActiveProcs :
          /\ loc[p].begins <= 1
          /\ ~loc[p].innerRan
          /\ tx[p].active => tx[p].log = loc[p].writes
          /\ (op[p].name = "RunTx" /\ loc[p].k <= Len(op[p].script)
                 /\ op[p].script[loc[p].k] \in NestedSteps
                 /\ pc[p] \notin {"idle", "lockOp", "begin", "closure"}
                 /\ loc[p].begins = 1)
             => /\ loc[p].nested = "nested"
                /\ loc[p].ret = "nested"
                /\ pc[p] = "done" => res[p] = "nested" /\ DB = pre[p]

C10_Witness ==
    \E p \in ActiveProcs :
        /\ pc[p] = "done" /\ op[p].name = "RunTx"
        /\ loc[p].nested = "nested" /\ res[p] = "nested"
        /\ Len(loc[p].writes) = 1
        /\ loc[p].begins = 1 /\ ~loc[p].innerRan
        /\ DB = pre[p] /\ repoTx = FALSE

\* C11: StoreEmailItem alone: an item not cached is inserted with the incoming
\* version; one cached at a strictly smaller version is overwritten and takes
\* the incoming version; one cached at an equal or greater version stays as it
\* is, version included, and the call succeeds all the same.
C11_VersionedUpsert ==
    \A p \in ActiveProcs :
        (pc[p] = "done" /\ Len(snap[p]) = 1 /\ LastCall(p).op.name = "StoreEmailItem"
            /\ ~faulted[p])
        => LET o == LastCall(p).op
               before == LastCall(p).before.email
               old == KeyRows(before, o.guid)
               new == EmailRow(o.guid, o.version, o.item)
           IN  /\ res[p] = "ok"
               /\ old = {} => emailRows = before \cup {new}
               /\ (old # {} /\ \A r \in old : r.version < o.version)
                     => emailRows = (before \ old) \cup {new}
               /\ (old # {} /\ \A r \in old : r.version >= o.version)
                     => emailRows = before

C11_Witness ==
    \E p \in ActiveProcs :
        /\ pc[p] = "done" /\ res[p] = "ok" /\ ~faulted[p]
        /\ LastCall(p).op.name = "StoreEmailItem"
        /\ LastCall(p).op.version = 1 /\ LastCall(p).op.item = "b"
        /\ EmailRow(LastCall(p).op.guid, 1, "a") \in LastCall(p).before.email
        /\ emailRows = LastCall(p).before.email

\* C12: for any interleaving of concurrent StoreEmailItem calls for one
\* (account, GUID), on every SQL backend, decorated or not, the key has at most
\* one row and, once the calls have returned, the item stored is the one
\* submitted with the highest version (or the cached one, if that is higher).
C12_HighestVersionWins ==
    \A g \in GUIDs :
        /\ Cardinality(KeyRows(emailRows, g)) <= 1
        /\ (\A p \in ActiveProcs : pc[p] = "done" /\ LastCall(p).op.guid = g)
              => LET sub == {EmailRow(g, LastCall(p).op.version, LastCall(p).op.item) :
                               p \in ActiveProcs}
                     before == UNION {KeyRows(LastCall(p).before.email, g) : p \in ActiveProcs}
                     top == Max({r.version : r \in sub \cup before})
                 IN  \E r \in KeyRows(emailRows, g) :
                        /\ r.version = top
                        /\ r \in sub \cup before

\* The feed table when call k of caller p returned (no other caller running).
FeedsAfter(p, k) == IF k < Len(snap[p]) THEN snap[p][k + 1].before.feeds ELSE feedRows
Returned(p, k) == k < Len(snap[p]) \/ pc[p] \in {"done", "idle"}

\* C13: GetOrCreateFeedID called twice one after the other with one URL returns
\* the same feed id both times, the second call inserts nothing and the URL has
\* exactly one row; calls with different URLs return different ids.
C13_GetOrCreateIdempotent ==
    \A p \in ActiveProcs : \A i, j \in DOMAIN snap[p] :
        (i < j /\ Returned(p, j) /\ snap[p][i].res = "ok" /\ snap[p][j].res = "ok")
        => LET u == snap[p][i].op.url
           IN  IF snap[p][j].op.url = u
                 THEN /\ snap[p][j].id = snap[p][i].id
                      /\ URLRows(FeedsAfter(p, j), u) = URLRows(FeedsAfter(p, i), u)
                      /\ URLRows(FeedsAfter(p, j), u) = {[id |-> snap[p][i].id, url |-> u]}
                 ELSE snap[p][j].id # snap[p][i].id

C13_Witness ==
    \E p \in ActiveProcs :
        /\ Len(snap[p]) = 2 /\ pc[p] = "done"
        /\ snap[p][1].res = "ok" /\ snap[p][2].res = "ok"
        /\ snap[p][1].op.url = snap[p][2].op.url
        /\ URLRows(snap[p][1].before.feeds, snap[p][1].op.url) = {}
        /\ snap[p][2].id = snap[p][1].id
        /\ Cardinality(feedRows) = 1

\* C14: for any interleaving of concurrent GetOrCreateFeedID calls with one URL
\* not known before, on every SQL backend, decorated or not, there is never more
\* than one row with that URL and all calls return the same id.
C14_NoDuplicateFeed ==
    \A u \in URLs :
        /\ Cardinality(URLRows(feedRows, u)) <= 1
        /\ \A p, q \in ActiveProcs : \A i \in DOMAIN snap[p], j \in DOMAIN snap[q] :
              (snap[p][i].op.url = u /\ snap[q][j].op.url = u
                  /\ snap[p][i].res = "ok" /\ snap[q][j].res = "ok")
              => snap[p][i].id = snap[q][j].id

\* Shape of an operation by its name: Get*, Is*, Are* read, the others write.
ShapeOf(o) == IF o[1] \in {"Get", "Is", "Are"} THEN "r" ELSE "w"
InBackend(shape) == {p \in Procs : pc[p] = "inside" /\ ShapeOf(Segment(p)) = shape}

\* C15: under the lock decorator the wrapped backend is at every instant running
\* at most one write-shaped operation and no read-shaped one, or only read-shaped
\* operations (several of which can be inside together).
C15_WritersExclusive ==
    /\ Cardinality(InBackend("w")) <= 1
    /\ InBackend("w") # {} => InBackend("r") = {}

C15_Witness ==
    /\ Decorated
    /\ Cardinality(InBackend("r")) >= 2
    /\ \A p \in InBackend("r") : lk[p].r = 1

\* C16: a decorator operation is inside the backend only with the lock of its
\* shape held (shared for reads, exclusive for writes); it holds nothing once it
\* has returned, with success or with an error; with no call in flight the lock
\* is free.
C16_LockMatchesShapeAndIsReleased ==
    /\ \A p \in Procs :
          /\ pc[p] = "inside" =>
                IF ShapeOf(Segment(p)) = "r"
                  THEN lk[p].r = 1 /\ lk[p].w = 0 /\ p \in rwMutex.r /\ rwMutex.w = NoProc
                  ELSE lk[p].w = 1 /\ lk[p].r = 0 /\ rwMutex.w = p /\ rwMutex.r = {}
          /\ pc[p] \in {"idle", "done"} =>
                lk[p].r = 0 /\ lk[p].w = 0 /\ p \notin rwMutex.r /\ rwMutex.w # p
    /\ (\A p \in Procs : pc[p] \in {"idle", "done"})
          => rwMutex = [w |-> NoProc, r |-> {}]

C16_Witness ==
    /\ Decorated
    /\ \E p, q \in Procs :
          /\ pc[p] = "done" /\ res[p] = "storage"
          /\ pc[q] = "done" /\ res[q] = "ok"
    /\ rwMutex = [w |-> NoProc, r |-> {}]

\* C17: no call takes the lock while it already holds it, and every call that
\* has started gets its lock and completes.
C17_NoReentryNoDeadlock ==
    /\ [][\A p \in Procs :
             lk'[p].r + lk'[p].w > lk[p].r + lk[p].w => lk[p].r + lk[p].w = 0]_vars
    /\ \A p \in Procs : (pc[p] \in {"waitLock", "drain", "inside"}) ~> (pc[p] = "done")

\* GetTab holds its read lock while a writer waits for it to leave.
C17_Witness ==
    \E p, q \in Procs :
        /\ pc[p] = "inside" /\ lk[p].o = <<"Get", "Tab">> /\ lk[p].r = 1
        /\ pc[q] = "drain"

Stranger == [access |-> FALSE, admin |-> FALSE]
CalledBy(p, c) == snap[p] # <<>> /\ LastCall(p).op.caller = c

\* C19: a tab operation (Tab, EditTab, DeleteTab, NewWidget, EditWidget,
\* DeleteWidget, UpdateLayout) called by someone with no access row for the tab
\* who is not admin fails, and no tab, widget, layout or feed row is created,
\* changed or deleted.
C19_DeniedChangesNothing ==
    \A p \in ActiveProcs :
        CalledBy(p, Stranger) =>
            /\ pc[p] = "done"
            /\ res[p] \notin {"", "ok"}
            /\ DB = pre[p]
            /\ widgetSeq = Cardinality(pre[p].widgets) + 1
            /\ feedRows = LastCall(p).before.feeds
            /\ loc[p].writes = <<>>

C19_Witness ==
    \E p \in ActiveProcs :
        /\ CalledBy(p, Stranger)
        /\ LastCall(p).op.name = "DeleteTab"
        /\ res[p] = "notAllowed"
        /\ widgetRows # {}

\* "IsNotAuthorized() bool" is a method of the notAuthorized type alone.
IsNotAuthorized(err) == err = "notAuthorized"

\* C20: the error of a tab operation that denies access is of the NotAuthorized
\* class.
C20_DenialIsNotAuthorized ==
    \A p \in ActiveProcs :
        (CalledBy(p, Stranger) /\ pc[p] = "done") => IsNotAuthorized(res[p])

\* C22: AreItemsRead gives one answer per GUID, in the order asked, and false
\* wherever the (user, feed, GUID) has no stored read-state, whatever is stored
\* for other users, other feeds or the GUIDs asked before it.
C22_AbsentIsUnread ==
    \A p \in ActiveProcs : \A k \in DOMAIN snap[p] :
        LET c == snap[p][k]
        IN  (c.op.name = "AreItemsRead" /\ c.res = "ok") =>
               /\ Len(c.id) = Len(c.op.guids)
               /\ \A i \in DOMAIN c.op.guids :
                     LET rows == ReadKeyRows(c.op.was, c.op.user, c.op.feed, c.op.guids[i])
                     IN  /\ rows = {} => c.id[i] = FALSE
                         /\ \A r \in rows : c.id[i] = r.read

C22_Witness ==
    \E p \in ActiveProcs : \E k \in DOMAIN snap[p] :
        LET c == snap[p][k]
        IN  /\ c.op.name = "AreItemsRead" /\ c.res = "ok"
            /\ c.op.guids = <<"g1", "g2">>
            /\ c.id = <<TRUE, FALSE>>
            /\ \E r \in c.op.was : r.guid = "g1" /\ r.user_id # c.op.user /\ r.read

\* C23: once SetItemRead(user, feed, guid, v) has succeeded, AreItemsRead for
\* that key answers v, whatever was stored before.
C23_SetThenRead ==
    \A p \in ActiveProcs :
        (snap[p] # <<>> /\ LastCall(p).op.name = "SetItemRead" /\ LastCall(p).res = "ok")
        => LET o == LastCall(p).op
           IN  AreItemsRead(data.reads, o.user, o.feed, o.guids, 0).res = <<o.read>>

\* ---------------------------------------------------------------------------
\* Users, missing rows and the classification of errors.

MaxLayers == 2
MaxTabs == 2

\* An error value: the root cause and the number of errors.Wrap layers put
\* around it.  Nil is "no error".
Error(cause, layers) == [cause |-> cause, layers |-> layers]
Nil == Error("", 0)

\* errors.Wrap: nil stays nil, anything else gains a layer.
Wrap(err) == IF err = Nil THEN Nil ELSE [err EXCEPT !.layers = @ + 1]

\* errors.Cause: the innermost error.
Cause(err) == Error(err.cause, 0)

ErrNoRows == Error("sql.ErrNoRows", 0)
ErrNoSuchEntity == Error("datastore.ErrNoSuchEntity", 0)
ErrStorage == Error("storage", 0)
ErrConstraint == Error("constraint", 0)

\* IsNotFound of each backend: the SQL backends compare the root cause with
\* sql.ErrNoRows, the document store compares the error itself with
\* datastore.ErrNoSuchEntity.
IsNotFoundOn(b, err) ==
    IF b = "datastore" THEN err = ErrNoSuchEntity ELSE Cause(err) = ErrNoRows

Names == {"Ann", "Anna"}
UserRow(id, name) == [id |-> id, display_name |-> name]
UserRows(users, id) == {u \in users : u.id = id}

\* GetUser: the document store returns what Get returns, the SQL backends
\* wrap the error of the SELECT.
GetUser(b, users, userID, fail) ==
    LET found == UserRows(users, userID)
        err == IF fail THEN ErrStorage
               ELSE IF found # {} THEN Nil
               ELSE IF b = "datastore" THEN ErrNoSuchEntity ELSE ErrNoRows
    IN  [err |-> IF b = "datastore" THEN err ELSE Wrap(err),
         val |-> IF err = Nil THEN found ELSE {},
         users |-> users]

\* StoreUser: Put on the document store, a plain INSERT into a table whose
\* primary key is the id on the SQL backends.
StoreUser(b, users, user, fail) ==
    IF b = "datastore"
    THEN [err |-> IF fail THEN ErrStorage ELSE Nil, val |-> {},
          users |-> IF fail THEN users
                    ELSE (users \ UserRows(users, user.id)) \cup {user}]
    ELSE LET err == IF fail THEN ErrStorage
                    ELSE IF UserRows(users, user.id) # {} THEN ErrConstraint
                    ELSE Nil
         IN  [err |-> Wrap(err), val |-> {},
              users |-> IF err = Nil THEN users \cup {user} ELSE users]

\* The methods of the document store that are not implemented.
NotImplementedMutant(d) == [err |-> Nil, val |-> {}, data |-> d]
NotImplemented(d) == [err |-> Error("Not implemented", 0), val |-> {}, data |-> d]

Unimplemented == RepoOps \ {<<"Get", "User">>, <<"Store", "User">>}

\* The single-row reads of the SQL backends, with the table each one reads
\* (here a table is the set of the keys it holds).
Lookups ==
    {<<"Get", "Tab">>, <<"Get", "Account">>, <<"Get", "UserFromTemporaryCode">>}
LookupTable(d, o) ==
    IF o = <<"Get", "Tab">> THEN d.tabs
    ELSE IF o = <<"Get", "Account">> THEN d.accounts
    ELSE d.codes
Lookup(d, o, key, fail) ==
    LET found == {r \in LookupTable(d, o) : r = key}
        err == IF fail THEN ErrStorage ELSE IF found = {} THEN ErrNoRows ELSE Nil
    IN  [err |-> Wrap(err), val |-> IF err = Nil THEN found ELSE {}, data |-> d]

Keys == 1..2

\* One finished repository call: what was asked, the tables before and
\* after, the error and the value returned.
Finished(o, before, after, err, val) ==
    [op |-> o, before |-> before, after |-> after, res |-> err, id |-> val]

Finish(p, o, d, err, val) ==
    /\ snap' = [snap EXCEPT ![p] = Append(@, Finished(o, data, d, err, val))]
    /\ res' = [res EXCEPT ![p] = Result(err.cause)]
    /\ data' = d
    /\ pc' = [pc EXCEPT ![p] = "done"]
    /\ UNCHANGED <<cfg, rwMutex, op, faulted, emailRows, feedRows, feedSeq, cur, lk, direct>>
    /\ UNCHANGED tabVars

CallGetUser(p) ==
    /\ pc[p] = "idle"
    /\ Len(snap[p]) < MaxCalls
    /\ \E u \in Users, fail \in Faults :
         LET d == GetUser(cfg.backend, data.users, u, fail)
         IN  Finish(p, [name |-> <<"Get", "User">>, key |-> u, fail |-> fail],
                    data, d.err, d.val)

CallStoreUser(p) ==
    /\ pc[p] = "idle"
    /\ Len(snap[p]) < MaxCalls
    /\ \E u \in Users, n \in Names, fail \in Faults :
         LET d == StoreUser(cfg.backend, data.users, UserRow(u, n), fail)
         IN  Finish(p, [name |-> <<"Store", "User">>, key |-> UserRow(u, n), fail |-> fail],
                    [data EXCEPT !.users = d.users], d.err, d.val)

\* Any other method: "Not implemented" on the document store, one of the
\* single-row reads on the SQL backends.
CallOther(p) ==
    /\ pc[p] = "idle"
    /\ Len(snap[p]) < MaxCalls
    /\ \E o \in Unimplemented, k \in Keys, fail \in Faults :
         /\ IF cfg.backend = "datastore" THEN k = 1 /\ ~fail ELSE o \in Lookups
         /\ LET d == IF cfg.backend = "datastore" THEN NotImplemented(data)
                     ELSE Lookup(data, o, k, fail)
            IN  Finish(p, [name |-> o, key |-> k, fail |-> fail], d.data, d.err, d.val)

\* A caller adds context to the error it received.
WrapError(p) ==
    /\ pc[p] = "done"
    /\ LastCall(p).res # Nil
    /\ LastCall(p).res.layers < MaxLayers
    /\ snap' = [snap EXCEPT ![p][Len(snap[p])].res = Wrap(@)]
    /\ UNCHANGED <<cfg, rwMutex, pc, op, res, faulted, emailRows, feedRows, feedSeq, cur,
                   lk, direct, data>>
    /\ UNCHANGED tabVars

UserStates == {us \in SUBSET {UserRow(u, "Ann") : u \in Users} : TRUE}

InitUsers ==
    /\ \E b \in {"datastore", "postgresql", "sqliteBare"} :
          InitPlain(b, [p \in {1} |-> {"users"}], TRUE)
    /\ \E us \in UserStates, t \in SUBSET {1}, a \in SUBSET {1}, c \in SUBSET {1} :
          data = [NoData EXCEPT !.users = us, !.tabs = t, !.accounts = a, !.codes = c]

NextUsers ==
    \E p \in ActiveProcs :
        \/ CallGetUser(p)
        \/ CallStoreUser(p)
        \/ CallOther(p)
        \/ WrapError(p)
        \/ Return(p)

SpecUsers == InitUsers /\ [][NextUsers]_vars

\* C24: on the document store every method but GetUser and StoreUser fails
\* with "Not implemented" and changes nothing; GetUser returns the entity
\* stored under the ID and StoreUser stores the entity under its ID.
C24_OnlyUsersImplemented ==
    cfg.backend = "datastore" =>
      \A p \in ActiveProcs : \A k \in DOMAIN snap[p] :
        LET c == snap[p][k]
        IN  /\ c.op.name \in Unimplemented =>
                 /\ Cause(c.res) = Error("Not implemented", 0)
                 /\ c.after = c.before
            /\ (c.op.name = <<"Get", "User">> /\ ~c.op.fail) =>
                 /\ c.after = c.before
                 /\ c.id = {u \in c.before.users : u.id = c.op.key}
                 /\ (c.res = Nil) = (c.id # {})
            /\ (c.op.name = <<"Store", "User">> /\ ~c.op.fail) =>
                 /\ c.res = Nil
                 /\ c.after = [c.before EXCEPT !.users =
                                 {u \in @ : u.id # c.op.key.id} \cup {c.op.key}]

C24_Witness ==
    /\ cfg.backend = "datastore"
    /\ \E p \in ActiveProcs :
         /\ Len(snap[p]) = 2
         /\ snap[p][1].op.name = <<"Store", "Tab">>
         /\ snap[p][1].res.cause = "Not implemented"
         /\ snap[p][2].op.name = <<"Store", "User">>
         /\ snap[p][2].res = Nil
         /\ snap[p][2].before.users # {}
         /\ snap[p][2].after.users # snap[p][2].before.users

MissingRow(c) ==
    /\ ~c.op.fail
    /\ \/ c.op.name = <<"Get", "User">> /\ UserRows(c.before.users, c.op.key) = {}
       \/ c.op.name \in Lookups /\ cfg.backend # "datastore"
            /\ c.op.key \notin LookupTable(c.before, c.op.name)

\* C25: the error of a read that found no row is classified as not-found by
\* the backend's IsNotFound however many layers of context were added to it,
\* and no other error is.
C25_NotFoundSurvivesWrapping ==
    \A p \in ActiveProcs : \A k \in DOMAIN snap[p] :
        LET c == snap[p][k]
        IN  c.res # Nil => (IsNotFoundOn(cfg.backend, c.res) <=> MissingRow(c))

\* C26: StoreUser of an ID that is already stored succeeds and replaces the
\* row, leaving one row for the ID; StoreUser of an unknown ID inserts it.
C26_StoreUserIsUpsert ==
    \A p \in ActiveProcs : \A k \in DOMAIN snap[p] :
        LET c == snap[p][k]
        IN  (c.op.name = <<"Store", "User">> /\ ~c.op.fail) =>
               /\ Cause(c.res) = Nil
               /\ UserRows(c.after.users, c.op.key.id) = {c.op.key}

\* ---------------------------------------------------------------------------
\* Feeds and their items.

MaxTime == 1
Times == 0..MaxTime
FeedTitles == {"t1", "t2"}

\* The title and next_retrieval columns of t_feed, a row of t_feeditem, and
\* the api.Feed and api.FeedItem values.
FeedInfo(id, title, next) == [id |-> id, title |-> title, next_retrieval |-> next]
ItemRow(f, guid, title) == [feed_id |-> f, guid |-> guid, title |-> title]
FeedItem(guid, title) == [GUID |-> guid, Title |-> title]
Feed(id, url, title, next) == [ID |-> id, URL |-> url, Title |-> title, NextRetrieval |-> next]

ItemsOf(items, f) == {r \in items : r.feed_id = f}
ItemList(guids, title) == [i \in DOMAIN guids |-> FeedItem(guids[i], title)]

\* GetFeed: the feeds "SELECT id, url, next_retrieval, title FROM t_feed
\* WHERE id=$1" can give.
GetFeed(rows, info, feedID) ==
    {Feed(r.id, r.url, i.title, i.next_retrieval) :
        <<r, i>> \in {x \in rows \X info : x[1].id = feedID /\ x[2].id = feedID}}

\* The zero time.Time, earlier than every time a call is made at.
ZeroTime == -1

\* GetFeed of sqlite.go: the text of next_retrieval is parsed and the result
\* is assigned "if err != nil", that is never when the parse succeeded, and
\* as the zero time when it failed: NextRetrieval is the zero time.
GetFeedUnparsed(rows, info, feedID) ==
    {[f EXCEPT !.NextRetrieval = ZeroTime] : f \in GetFeed(rows, info, feedID)}

\* GetFeed of the SQLite backend without the package lock: the parsed time
\* when the stored text has the layout "2006-01-02 15:04:05", the zero time
\* when it has not.
GetFeedParsed(rows, info, feedID) ==
    GetFeed(rows, info, feedID) \cup GetFeedUnparsed(rows, info, feedID)

GetFeedOn(b, rows, info, feedID) ==
    IF b = "postgresql" THEN GetFeed(rows, info, feedID)
    ELSE IF b = "sqlite" THEN GetFeedUnparsed(rows, info, feedID)
    ELSE GetFeedParsed(rows, info, feedID)

\* GetFeedItems: the items of the feed (their order, by publication date, is
\* not kept).
GetFeedItems(items, feedID) == {FeedItem(r.guid, r.title) : r \in ItemsOf(items, feedID)}

\* The statements of StoreFeed.
UpdateFeed(info, feed) ==
    {IF i.id = feed.ID THEN FeedInfo(i.id, feed.Title, feed.NextRetrieval) ELSE i : i \in info}
UpdateFeedURL(rows, feed) ==
    {IF r.id = feed.ID THEN [r EXCEPT !.url = feed.URL] ELSE r : r \in rows}
DeleteItemsMutant(items, f) == items
DeleteItems(items, f) == items \ ItemsOf(items, f)
\* INSERT INTO t_feeditem: refused when the (feed_id, guid) is there already.
InsertItem(items, f, item) ==
    IF \E r \in items : r.feed_id = f /\ r.guid = item.GUID
    THEN [err |-> "constraint", items |-> items]
    ELSE [err |-> "", items |-> items \cup {ItemRow(f, item.GUID, item.Title)}]

FeedTables == [feeds |-> feedRows, info |-> data.info, items |-> data.items]

\* A StoreFeed call as it is started, by a caller or as a separate task.
StoreFeedCall(feed, items, by) ==
    [op |-> [name |-> "StoreFeed", feed |-> feed, items |-> items, by |-> by],
     before |-> FeedTables, after |-> FeedTables, res |-> "", id |-> 0]

\* The end of a StoreFeed call: its error, the tables it leaves, the lock
\* released.
StoreFeedEnd(p, r, feeds, d) ==
    /\ snap' = [snap EXCEPT ![p][Len(snap[p])].res = r,
                            ![p][Len(snap[p])].after =
                                [feeds |-> feeds, info |-> d.info, items |-> d.items]]
    /\ res' = [res EXCEPT ![p] = r]
    /\ pc' = [pc EXCEPT ![p] = "done"]
    /\ rwMutex' = unlock(p)
    /\ loc' = [loc EXCEPT ![p] = NoLoc]
    /\ cur' = [cur EXCEPT ![p] = NoCur]

CallStoreFeed(p) ==
    /\ pc[p] = "idle"
    /\ "StoreFeed" \in cfg.roles[p]
    /\ Len(snap[p]) < MaxCalls
    /\ \E f \in {0} \cup FeedIDs, t \in FeedTitles, guids \in GuidLists :
         snap' = [snap EXCEPT ![p] =
                    Append(@, StoreFeedCall(Feed(f, "u1", t, MaxTime), ItemList(guids, t), p))]
    /\ pc' = [pc EXCEPT ![p] = "storeFeed"]
    /\ res' = [res EXCEPT ![p] = ""]
    /\ UNCHANGED <<cfg, rwMutex, op, faulted, emailRows, feedRows, feedSeq, cur, lk, direct, data>>
    /\ UNCHANGED tabVars

\* The lock, where the backend has one, and the first statement: the UPDATE
\* of the feed when it has an ID, its INSERT when it has none.
StoreFeedFirst(p) ==
    /\ pc[p] = "storeFeed"
    /\ Locking => (rwMutex.w = NoProc /\ rwMutex.r = {})
    /\ \E fail \in Faults, idFail \in Faults :
         LET feed == LastCall(p).op.feed
             id == NewFeedID
         IN  IF fail
               THEN /\ StoreFeedEnd(p, "storage", feedRows, data)
                    /\ UNCHANGED <<feedRows, feedSeq, data>>
             ELSE IF feed.ID > 0
               THEN /\ feedRows' = UpdateFeedURL(feedRows, feed)
                    /\ data' = [data EXCEPT !.info = UpdateFeed(@, feed)]
                    /\ pc' = [pc EXCEPT ![p] = "deleteItems"]
                    /\ cur' = [cur EXCEPT ![p].id = feed.ID]
                    /\ rwMutex' = IF Locking THEN [rwMutex EXCEPT !.w = p] ELSE rwMutex
                    /\ UNCHANGED <<feedSeq, snap, res, loc>>
             ELSE /\ feedRows' = feedRows \cup {[id |-> id, url |-> feed.URL]}
                  /\ feedSeq' = IF cfg.backend = "postgresql" THEN feedSeq + 1 ELSE feedSeq
                  /\ data' = [data EXCEPT !.info =
                                @ \cup {FeedInfo(id, feed.Title, feed.NextRetrieval)}]
                  /\ IF idFail /\ cfg.backend # "postgresql"
                       THEN StoreFeedEnd(p, "storage", feedRows', data')
                       ELSE /\ pc' = [pc EXCEPT ![p] = "insertItems"]
                            /\ cur' = [cur EXCEPT ![p].id = id]
                            /\ rwMutex' = IF Locking THEN [rwMutex EXCEPT !.w = p]
                                          ELSE rwMutex
                            /\ UNCHANGED <<snap, res, loc>>
    /\ UNCHANGED <<cfg, op, faulted, emailRows, lk, direct>>
    /\ UNCHANGED <<repoTx, tabRow, widgetRows, widgetSeq, tx, seen, pre>>

\* "DELETE FROM t_feeditem WHERE feed_id=$1".
StoreFeedDelete(p) ==
    /\ pc[p] = "deleteItems"
    /\ \E fail \in Faults :
         IF fail
           THEN /\ StoreFeedEnd(p, "storage", feedRows, data)
                /\ UNCHANGED data
           ELSE /\ data' = [data EXCEPT !.items = DeleteItems(@, cur[p].id)]
                /\ pc' = [pc EXCEPT ![p] = "insertItems"]
                /\ UNCHANGED <<snap, res, rwMutex, loc, cur>>
    /\ UNCHANGED <<cfg, op, faulted, emailRows, feedRows, feedSeq, lk, direct>>
    /\ UNCHANGED <<repoTx, tabRow, widgetRows, widgetSeq, tx, seen, pre>>

\* One round of the loop over the items, or the return once it is over.
StoreFeedInsert(p) ==
    /\ pc[p] = "insertItems"
    /\ LET items == LastCall(p).op.items
           k == loc[p].k
       IN  IF k > Len(items)
             THEN /\ StoreFeedEnd(p, "ok", feedRows, data)
                  /\ UNCHANGED data
           ELSE \E fail \in Faults :
                  LET d == InsertItem(data.items, cur[p].id, items[k])
                  IN  IF fail \/ d.err # ""
                        THEN /\ StoreFeedEnd(p, "storage", feedRows, data)
                             /\ UNCHANGED data
                        ELSE /\ data' = [data EXCEPT !.items = d.items]
                             /\ loc' = [loc EXCEPT ![p].k = k + 1]
                             /\ UNCHANGED <<snap, res, rwMutex, pc, cur>>
    /\ UNCHANGED <<cfg, op, faulted, emailRows, feedRows, feedSeq, lk, direct>>
    /\ UNCHANGED <<repoTx, tabRow, widgetRows, widgetSeq, tx, seen, pre>>

\* The stored feeds, last refreshed at time 0, with some of their items.
FeedStates ==
    SUBSET {ItemRow(1, "g1", "t1"), ItemRow(1, "g2", "t1"), ItemRow(2, "g1", "t1")}

InitFeeds(b, roles, faults) ==
    /\ InitCore(Run(b, roles, faults, FALSE, FALSE), EmptyTab)
    /\ emailRows = {}
    /\ feedRows = {[id |-> f, url |-> IF f = 1 THEN "u1" ELSE "u2"] : f \in FeedIDs}
    /\ feedSeq = Max(FeedIDs) + 1
    /\ cur = [p \in Procs |-> NoCur]
    /\ snap = [p \in Procs |-> <<>>]
    /\ lk = [p \in Procs |-> NoLk]
    /\ direct = NoDirect
    /\ \E items \in FeedStates :
          data = [NoData EXCEPT !.info = {FeedInfo(f, "t1", 0) : f \in FeedIDs},
                                !.items = items]

\* StoreFeed called by one caller, up to MaxCalls times, with storage
\* failures.
InitStoreFeed ==
    \E b \in {"postgresql", "sqlite"} : InitFeeds(b, [p \in {1} |-> {"StoreFeed"}], TRUE)

NextStoreFeed ==
    \E p \in ActiveProcs :
        \/ CallStoreFeed(p)
        \/ StoreFeedFirst(p)
        \/ StoreFeedDelete(p)
        \/ StoreFeedInsert(p)
        \/ Return(p)

SpecStoreFeed == InitStoreFeed /\ [][NextStoreFeed]_vars

\* C27: once StoreFeed of a feed with an ID has succeeded, the stored items of
\* the feed are exactly the items supplied, each GUID once, the title and
\* next retrieval of the feed are the ones supplied, and the items of the other
\* feeds are as they were.
C27_ItemsReplaced ==
    \A p \in ActiveProcs : \A k \in DOMAIN snap[p] :
        LET c == snap[p][k]
            f == c.op.feed
        IN  (c.op.name = "StoreFeed" /\ c.res = "ok" /\ f.ID > 0) =>
               /\ ItemsOf(c.after.items, f.ID) =
                     {ItemRow(f.ID, c.op.items[i].GUID, c.op.items[i].Title) :
                         i \in DOMAIN c.op.items}
               /\ Cardinality(ItemsOf(c.after.items, f.ID)) = Len(c.op.items)
               /\ \A i \in c.after.info :
                     i.id = f.ID => i.title = f.Title /\ i.next_retrieval = f.NextRetrieval
               /\ \E i \in c.after.info : i.id = f.ID
               /\ \A g \in FeedIDs \ {f.ID} :
                     ItemsOf(c.after.items, g) = ItemsOf(c.before.items, g)

C27_Witness ==
    \E p \in ActiveProcs : \E k \in DOMAIN snap[p] :
        LET c == snap[p][k]
        IN  /\ c.op.name = "StoreFeed" /\ c.res = "ok" /\ c.op.feed.ID = 1
            /\ c.op.items = <<FeedItem("g2", "t2")>>
            /\ ItemRow(1, "g1", "t1") \in c.before.items
            /\ ItemRow(1, "g2", "t1") \in c.before.items
            /\ ItemRow(2, "g1", "t1") \in c.before.items
            /\ c.after.items = {ItemRow(1, "g2", "t2"), ItemRow(2, "g1", "t1")}

\* ---------------------------------------------------------------------------
\* App.feed: the stored feed, or a fresh one when the feed is due.

\* The 15 minutes to the next retrieval, as one unit of time.
Period == 1

\* What the external source answers: a title and the GUIDs of its items.
Fetched == [title : FeedTitles, guids : GuidLists]

\* The feed after a refetch at time now.
RefetchedMutant(feed, ext, now) == feed
Refetched(feed, ext, now) == [feed EXCEPT !.NextRetrieval = now + Period, !.Title = ext.title]

FeedCall(feedID, now) ==
    [op |-> [name |-> "feed", feedID |-> feedID, now |-> now, loadItems |-> FALSE,
             feed |-> {}, ext |-> {}, task |-> <<>>],
     before |-> FeedTables, after |-> FeedTables, res |-> "", id |-> {}]

\* The return of App.feed: the feed, the items and the error.
FeedEnd(p, feed, items, err) ==
    /\ res' = [res EXCEPT ![p] = Result(err)]
    /\ pc' = [pc EXCEPT ![p] = "done"]
    /\ UNCHANGED <<cfg, rwMutex, op, faulted, emailRows, feedRows, feedSeq, cur, lk, direct, data>>
    /\ UNCHANGED tabVars

\* GetFeed, and the comparison of the time with the feed's next retrieval.
CallFeed(p) ==
    /\ pc[p] = "idle"
    /\ "feed" \in cfg.roles[p]
    /\ Len(snap[p]) < MaxCalls
    /\ Locking => rwMutex.w = NoProc
    /\ \E f \in FeedIDs, now \in Times, fail \in Faults :
         LET c == FeedCall(f, now)
             found == GetFeedOn(cfg.backend, feedRows, data.info, f)
         IN  IF fail \/ found = {}
               THEN /\ snap' = [snap EXCEPT ![p] =
                                  Append(@, [c EXCEPT !.res = "storage",
                                                      !.id = [feed |-> {}, items |-> <<>>]])]
                    /\ FeedEnd(p, {}, <<>>, "storage")
             ELSE \E feed \in found :
                    /\ snap' = [snap EXCEPT ![p] = Append(@, [c EXCEPT !.op.feed = feed])]
                    /\ res' = [res EXCEPT ![p] = ""]
                    /\ pc' = [pc EXCEPT ![p] =
                                 IF now > feed.NextRetrieval THEN "fetch"
                                 ELSE "stored"]
                    /\ UNCHANGED <<cfg, rwMutex, op, faulted, emailRows, feedRows, feedSeq,
                                   cur, lk, direct, data>>
                    /\ UNCHANGED tabVars

\* The feed is due: it is fetched, its storage is started as a task of its
\* own, and the fetched feed and items are returned.
FeedFetch(p) ==
    /\ pc[p] = "fetch"
    /\ LET c == LastCall(p)
       IN  \E ext \in Fetched, fail \in Faults :
             IF fail
               THEN /\ snap' = [snap EXCEPT ![p][Len(snap[p])].res = "fetch",
                                            ![p][Len(snap[p])].id =
                                                [feed |-> c.op.feed, items |-> <<>>]]
                    /\ FeedEnd(p, c.op.feed, <<>>, "fetch")
             ELSE \E q \in ActiveProcs :
                    LET feed == Refetched(c.op.feed, ext, c.op.now)
                        items == ItemList(ext.guids, ext.title)
                    IN  /\ "task" \in cfg.roles[q]
                        /\ pc[q] = "idle"
                        /\ Len(snap[q]) < MaxCalls
                        /\ snap' = [snap EXCEPT
                              ![q] = Append(@, StoreFeedCall(feed, items, p)),
                              ![p][Len(snap[p])].op.ext = ext,
                              ![p][Len(snap[p])].op.task = <<q, Len(snap[q]) + 1>>,
                              ![p][Len(snap[p])].res = "ok",
                              ![p][Len(snap[p])].id = [feed |-> feed, items |-> items]]
                        /\ pc' = [pc EXCEPT ![p] = "done", ![q] = "storeFeed"]
                        /\ res' = [res EXCEPT ![p] = "ok", ![q] = ""]
                        /\ UNCHANGED <<cfg, rwMutex, op, faulted, emailRows, feedRows,
                                       feedSeq, cur, lk, direct, data>>
                        /\ UNCHANGED tabVars

\* The feed is not due: the stored feed, with the stored items when they are
\* asked for (loadItems is read here and nowhere else).
FeedStored(p) ==
    /\ pc[p] = "stored"
    /\ Locking => rwMutex.w = NoProc
    /\ LET c == LastCall(p)
       IN  \E loadItems \in BOOLEAN, fail \in Faults :
             LET err == IF loadItems /\ fail THEN "storage" ELSE ""
                 items == IF loadItems /\ ~fail
                          THEN GetFeedItems(data.items, c.op.feedID) ELSE {}
             IN  /\ snap' = [snap EXCEPT ![p][Len(snap[p])].res = Result(err),
                                         ![p][Len(snap[p])].op.loadItems = loadItems,
                                         ![p][Len(snap[p])].id =
                                             [feed |-> c.op.feed, items |-> items]]
                 /\ FeedEnd(p, c.op.feed, items, err)

\* One caller of App.feed and the task that stores what it fetched.
InitAppFeed ==
    /\ \E b \in {"postgresql", "sqlite"} :
          InitFeeds(b, [p \in 1..NumProcs |-> IF p = 1 THEN {"feed"} ELSE {"task"}], TRUE)
    /\ data.items \in {{}, {ItemRow(1, "g1", "t1"), ItemRow(2, "g1", "t1")}}

NextAppFeed ==
    \E p \in ActiveProcs :
        \/ CallFeed(p)
        \/ FeedFetch(p)
        \/ FeedStored(p)
        \/ StoreFeedFirst(p)
        \/ StoreFeedDelete(p)
        \/ StoreFeedInsert(p)
        \/ Return(p)

SpecAppFeed == InitAppFeed /\ [][NextAppFeed]_vars

\* The StoreFeed task started by a call of App.feed.
TaskOf(c) == snap[c.op.task[1]][c.op.task[2]]

\* C28: a call of App.feed that refetched has returned the fetched feed and
\* items with no error, and that result is the same while the StoreFeed task
\* it started has not run, is running, has succeeded or has failed.
C28_RefetchReturnsWithoutStore ==
    \A p \in ActiveProcs : \A k \in DOMAIN snap[p] :
        LET c == snap[p][k]
        IN  (c.op.name = "feed" /\ c.op.task # <<>>) =>
               /\ c.res = "ok"
               /\ c.id.feed = Feed(c.op.feedID, c.op.feed.URL, c.op.ext.title,
                                   c.op.now + Period)
               /\ c.id.items = ItemList(c.op.ext.guids, c.op.ext.title)
               /\ TaskOf(c).op.by = p
               /\ TaskOf(c).res \in {"", "ok", "storage"}
               /\ (k < Len(snap[p]) \/ pc[p] \in {"done", "idle"})

\* The caller has its result and the task has failed.
C28_Witness ==
    \E p \in ActiveProcs : \E k \in DOMAIN snap[p] :
        LET c == snap[p][k]
        IN  /\ c.op.name = "feed" /\ c.op.task # <<>>
            /\ c.res = "ok"
            /\ c.id.items = <<FeedItem("g1", "t2"), FeedItem("g2", "t2")>>
            /\ TaskOf(c).res = "storage"
            /\ ItemsOf(TaskOf(c).before.items, c.op.feedID) # {}
            /\ ItemsOf(data.items, c.op.feedID) = {}

\* ---------------------------------------------------------------------------
\* Temporary codes and the OAuth2 callback.

Services == {"gmail"}
States == {"oki1", "oki2"}
Codes == {"", "code"}

CodeRow(code, u, service) == [code |-> code, user_id |-> u, provider |-> service]
AccountRow(id, u, service, email) ==
    [id |-> id, user_id |-> u, provider |-> service, account_id |-> email]

\* GetUserFromTemporaryCode: the user IDs the SELECT can give; none is the
\* sql.ErrNoRows error.
GetUserFromTemporaryCode(codes, service, code) ==
    {r.user_id : r \in {c \in codes : c.provider = service /\ c.code = code}}

\* "DELETE FROM t_temporarycode WHERE user_id=$1 AND provider=$2".
DeleteTemporaryCode(codes, u, service) ==
    {c \in codes : ~(c.user_id = u /\ c.provider = service)}

\* StoreAccount of an account without ID: the INSERT and the id it returns.
StoreAccount(accounts, u, service, email) ==
    accounts \cup {AccountRow(Max({a.id : a \in accounts}) + 1, u, service, email)}

OauthCall(service, state, code) ==
    [op |-> [name |-> "HandleOauth2Callback", service |-> service, state |-> state,
             code |-> code, userID |-> ""],
     before |-> data, after |-> data, res |-> "", id |-> 0]

\* The return of HandleOauth2Callback.
OauthEnd(p, r, d) ==
    /\ snap' = [snap EXCEPT ![p][Len(snap[p])].res = r, ![p][Len(snap[p])].after = d]
    /\ res' = [res EXCEPT ![p] = r]
    /\ pc' = [pc EXCEPT ![p] = "done"]

\* The look-up of the state, and the checks of the user ID and of the code.
CallHandleOauth2Callback(p) ==
    /\ pc[p] = "idle"
    /\ "HandleOauth2Callback" \in cfg.roles[p]
    /\ Len(snap[p]) < MaxCalls
    /\ Locking => rwMutex.w = NoProc
    /\ \E service \in Services, state \in States, code \in Codes, fail \in Faults :
         LET c == OauthCall(service, state, code)
             ids == GetUserFromTemporaryCode(data.codes, service, state)
             r == IF fail THEN "storage"
                  ELSE IF ids = {} THEN "notfound"
                  ELSE IF code = "" THEN "emptyCode"
                  ELSE ""
         IN  IF r # ""
               THEN /\ snap' = [snap EXCEPT ![p] = Append(@, [c EXCEPT !.res = r])]
                    /\ res' = [res EXCEPT ![p] = r]
                    /\ pc' = [pc EXCEPT ![p] = "done"]
               ELSE \E u \in ids :
                      /\ snap' = [snap EXCEPT ![p] = Append(@, [c EXCEPT !.op.userID = u])]
                      /\ res' = [res EXCEPT ![p] = ""]
                      /\ pc' = [pc EXCEPT ![p] = "exchange"]
    /\ UNCHANGED <<cfg, rwMutex, op, faulted, emailRows, feedRows, feedSeq, cur, lk, direct, data>>
    /\ UNCHANGED tabVars

\* The exchange of the code for a token, then DeleteTemporaryCode.
OauthDelete(p) ==
    /\ pc[p] = "exchange"
    /\ Locking => (rwMutex.w = NoProc /\ rwMutex.r = {})
    /\ LET o == LastCall(p).op
       IN  \E exchangeFail \in Faults, fail \in Faults :
             IF exchangeFail \/ fail
               THEN /\ OauthEnd(p, IF exchangeFail THEN "exchange" ELSE "storage", data)
                    /\ UNCHANGED data
               ELSE /\ data' = [data EXCEPT !.codes = DeleteTemporaryCode(@, o.userID, o.service)]
                    /\ pc' = [pc EXCEPT ![p] = "storeAccount"]
                    /\ UNCHANGED <<snap, res>>
    /\ UNCHANGED <<cfg, rwMutex, op, faulted, emailRows, feedRows, feedSeq, cur, lk, direct>>
    /\ UNCHANGED tabVars

\* The look-up of the e-mail address of the account, then StoreAccount.
OauthStore(p) ==
    /\ pc[p] = "storeAccount"
    /\ Locking => (rwMutex.w = NoProc /\ rwMutex.r = {})
    /\ LET o == LastCall(p).op
       IN  \E emailFail \in Faults, fail \in Faults :
             IF emailFail \/ fail
               THEN /\ OauthEnd(p, IF emailFail THEN "email" ELSE "storage", data)
                    /\ UNCHANGED data
               ELSE /\ data' = [data EXCEPT !.accounts =
                                  StoreAccount(@, o.userID, o.service, "a@mail")]
                    /\ OauthEnd(p, "ok", data')
    /\ UNCHANGED <<cfg, rwMutex, op, faulted, emailRows, feedRows, feedSeq, cur, lk, direct>>
    /\ UNCHANGED tabVars

\* Callbacks from NumProcs callers, with the codes of flows alice started.
InitOauth ==
    /\ \E b \in {"postgresql", "sqlite"} :
          InitPlain(b, [p \in 1..NumProcs |-> {"HandleOauth2Callback"}], TRUE)
    /\ \E states \in SUBSET States :
          data = [NoData EXCEPT !.codes = {CodeRow(st, "alice", "gmail") : st \in states}]

NextOauth ==
    \E p \in ActiveProcs :
        \/ CallHandleOauth2Callback(p)
        \/ OauthDelete(p)
        \/ OauthStore(p)
        \/ Return(p)

SpecOauth == InitOauth /\ [][NextOauth]_vars

\* The callbacks that presented the state and stored an account.
StoredFor(service, state) ==
    {pk \in {<<p, k>> : p \in ActiveProcs, k \in 1..MaxCalls} :
        /\ pk[2] \in DOMAIN snap[pk[1]]
        /\ LET c == snap[pk[1]][pk[2]]
           IN  c.op.service = service /\ c.op.state = state /\ c.res = "ok"}

\* C29: of the callbacks that present one (provider, state) at most one
\* stores an account, and once a callback has succeeded the state is no
\* longer known.
C29_CodeIsSingleUse ==
    /\ \A service \in Services, state \in States :
          Cardinality(StoredFor(service, state)) <= 1
    /\ \A p \in ActiveProcs : \A k \in DOMAIN snap[p] :
          LET c == snap[p][k]
          IN  c.res = "ok" =>
                 GetUserFromTemporaryCode(c.after.codes, c.op.service, c.op.state) = {}

\* ---------------------------------------------------------------------------
\* Tabs and the users who may see them.

FourColumns == <<<<>>, <<>>, <<>>, <<>>>>

TabRow(id, title, layout) == [id |-> id, title |-> title, layout |-> layout]
AccessRow(u, id) == [user_id |-> u, tab_id |-> id]

\* GetTabs: the tabs joined with the access rows of the user.
GetTabs(tabs, access, u) ==
    {t.id : t \in {x \in tabs : AccessRow(u, x.id) \in access}}

\* IsTabAccessAllowed: count(*) of the access rows of the user for the tab
\* must be 1.
AccessCount(access, u, id) == Cardinality({a \in access : a = AccessRow(u, id)})
AccessAllowed(access, u, id) == AccessCount(access, u, id) = 1

\* id assigned by INSERT INTO t_tab: bigserial, or rowid on SQLite.
NewTabID(d) ==
    IF cfg.backend = "postgresql" THEN d.tabSeq
    ELSE Max({t.id : t \in d.tabs}) + 1

\* StoreTab of a tab without ID.
InsertTab(d, title, widgets) ==
    [d EXCEPT !.tabs = @ \cup {TabRow(NewTabID(d), title,
                                     <<LB>> \o FormatCols(widgets) \o <<RB>>)},
              !.tabSeq = IF cfg.backend = "postgresql" THEN @ + 1 ELSE @]

\* AllowTabAccess: an INSERT, refused when the row is there already.
AllowTabAccess(access, u, id) ==
    IF AccessRow(u, id) \in access
    THEN [err |-> "constraint", access |-> access]
    ELSE [err |-> "", access |-> access \cup {AccessRow(u, id)}]

\* DeleteTab: the tab row, and the access rows of the tab when the foreign
\* key of tj_tabaccess is enforced (always on PostgreSQL, on SQLite only
\* when the connection enables foreign keys).
DeleteTab(d, id, cascade) ==
    [d EXCEPT !.tabs = {t \in @ : t.id # id},
              !.access = IF cascade THEN {a \in @ : a.tab_id # id} ELSE @]

TabCall(name, u, id) ==
    [op |-> [name |-> name, user |-> u, tab |-> id],
     before |-> data, after |-> data, res |-> "", id |-> 0]

TabEnd(p, r, d) ==
    /\ snap' = [snap EXCEPT ![p][Len(snap[p])].res = r, ![p][Len(snap[p])].after = d]
    /\ res' = [res EXCEPT ![p] = r]
    /\ pc' = [pc EXCEPT ![p] = "done"]

\* App.NewTab up to StoreTab.
CallNewTab(p) ==
    /\ pc[p] = "idle"
    /\ "tabs" \in cfg.roles[p]
    /\ Len(snap[p]) < MaxCalls
    /\ Cardinality(data.tabs) < MaxTabs
    /\ \E u \in Users, fail \in Faults, idFail \in Faults :
         LET c == TabCall("NewTab", u, NewTabID(data))
         IN  IF fail
               THEN /\ snap' = [snap EXCEPT ![p] = Append(@, [c EXCEPT !.res = "storage"])]
                    /\ res' = [res EXCEPT ![p] = "storage"]
                    /\ pc' = [pc EXCEPT ![p] = "done"]
                    /\ UNCHANGED data
               ELSE /\ data' = InsertTab(data, "News", FourColumns)
                    /\ IF idFail /\ cfg.backend # "postgresql"
                         THEN /\ snap' = [snap EXCEPT ![p] =
                                            Append(@, [c EXCEPT !.res = "storage",
                                                                !.after = data'])]
                              /\ res' = [res EXCEPT ![p] = "storage"]
                              /\ pc' = [pc EXCEPT ![p] = "done"]
                         ELSE /\ snap' = [snap EXCEPT ![p] = Append(@, c)]
                              /\ res' = [res EXCEPT ![p] = ""]
                              /\ pc' = [pc EXCEPT ![p] = "allowAccess"]
    /\ UNCHANGED <<cfg, rwMutex, op, faulted, emailRows, feedRows, feedSeq, cur, lk, direct>>
    /\ UNCHANGED tabVars

\* App.NewTab: AllowTabAccess for the caller, and the return of the tab.
NewTabAllow(p) ==
    /\ pc[p] = "allowAccess"
    /\ LET o == LastCall(p).op
       IN  \E fail \in Faults :
             LET d == AllowTabAccess(data.access, o.user, o.tab)
             IN  IF fail \/ d.err # ""
                   THEN /\ TabEnd(p, "storage", data)
                        /\ UNCHANGED data
                   ELSE /\ data' = [data EXCEPT !.access = d.access]
                        /\ TabEnd(p, "ok", data')
    /\ UNCHANGED <<cfg, rwMutex, op, faulted, emailRows, feedRows, feedSeq, cur, lk, direct>>
    /\ UNCHANGED tabVars

\* App.DeleteTab by a user who has access to the tab.
CallDeleteTab(p) ==
    /\ pc[p] = "idle"
    /\ "tabs" \in cfg.roles[p]
    /\ Len(snap[p]) < MaxCalls
    /\ \E u \in Users, t \in data.tabs, fail \in Faults, cascade \in BOOLEAN :
         LET c == TabCall("DeleteTab", u, t.id)
             allowed == AccessAllowed(data.access, u, t.id)
             r == IF ~allowed THEN "notAllowed" ELSE IF fail THEN "storage" ELSE "ok"
             d == IF r = "ok"
                  THEN DeleteTab(data, t.id, cascade \/ cfg.backend = "postgresql")
                  ELSE data
         IN  /\ snap' = [snap EXCEPT ![p] = Append(@, [c EXCEPT !.res = r, !.after = d])]
             /\ res' = [res EXCEPT ![p] = r]
             /\ data' = d
    /\ pc' = [pc EXCEPT ![p] = "done"]
    /\ UNCHANGED <<cfg, rwMutex, op, faulted, emailRows, feedRows, feedSeq, cur, lk, direct>>
    /\ UNCHANGED tabVars

\* Two users creating and deleting tabs.
InitTabs ==
    /\ \E b \in {"postgresql", "sqliteBare"} :
          InitPlain(b, [p \in 1..NumProcs |-> {"tabs"}], TRUE)
    /\ data = NoData

NextTabs ==
    \E p \in ActiveProcs :
        \/ CallNewTab(p)
        \/ NewTabAllow(p)
        \/ CallDeleteTab(p)
        \/ Return(p)

SpecTabs == InitTabs /\ [][NextTabs]_vars

\* C30: a successful NewTab by U leaves a tab of four empty columns that U
\* may access and that GetTabs(U) lists, and that no other user may access;
\* and a stored tab is listed for V exactly when an access row (V, tab)
\* exists.
C30_NewTabIsPrivate ==
    /\ \A p \in ActiveProcs : \A k \in DOMAIN snap[p] :
          LET c == snap[p][k]
              d == c.after
          IN  (c.op.name = "NewTab" /\ c.res = "ok") =>
                 /\ \E t \in d.tabs :
                       /\ t.id = c.op.tab
                       /\ t.layout = <<LB, LB, RB, LB, RB, LB, RB, LB, RB, RB>>
                 /\ AccessAllowed(d.access, c.op.user, c.op.tab)
                 /\ c.op.tab \in GetTabs(d.tabs, d.access, c.op.user)
                 /\ \A v \in Users \ {c.op.user} :
                       /\ ~AccessAllowed(d.access, v, c.op.tab)
                       /\ c.op.tab \notin GetTabs(d.tabs, d.access, v)
    /\ \A v \in Users : \A t \in data.tabs :
          t.id \in GetTabs(data.tabs, data.access, v) <=> AccessRow(v, t.id) \in data.access

\* ---------------------------------------------------------------------------
\* The operations on a user's own data and the check at their head.

UserOps == {"User", "BackupUser", "RestoreUser", "AssociatedAccount", "AssociatedAccounts",
            "RevokeAccount", "FeedItems", "MarkAsRead", "GetEmails"}

\* Who calls: a logged-in user, the administrator, or nobody ("").
LoggedIn == Users \cup {"admin", ""}

\* CurrentUserIsAdmin of the context-based user interactor.
CurrentUserIsAdmin(caller) == caller = "admin"

\* The check of each operation: "" when the caller may go on.
UserGateMutant(userID, caller) == IF caller = "" THEN "notLogged" ELSE ""
UserGate(userID, caller) ==
    IF caller = "" THEN "notLogged"
    ELSE IF userID # caller /\ ~CurrentUserIsAdmin(caller) THEN "notAuthorized"
    ELSE ""

\* The repository calls of each operation once the caller is let in, for a
\* user without tabs (and, for RestoreUser, a snapshot of one feed).
UserBody(name) ==
    CASE name = "User" -> <<"GetUser", "GetTabs">>
      [] name = "BackupUser" -> <<"GetUser", "GetTabs", "GetAccounts">>
      [] name = "RestoreUser" -> <<"GetTabs", "GetAccounts", "GetOrCreateFeedID">>
      [] name = "AssociatedAccount" -> <<"GetAccount">>
      [] name = "AssociatedAccounts" -> <<"GetAccounts">>
      [] name = "RevokeAccount" -> <<"DeleteAccount">>
      [] name = "FeedItems" -> <<"GetFeed", "GetFeedItems", "AreItemsRead">>
      [] name = "MarkAsRead" -> <<"SetItemRead">>
      [] name = "GetEmails" -> <<"GetAccount">>

\* One repository call of the body: the tables after it and its error.
UserRepoCall(call, o, d, feeds, fail) ==
    LET same == [data |-> d, feeds |-> feeds, err |-> ""]
    IN  IF fail THEN [same EXCEPT !.err = "storage"]
        ELSE CASE call = "GetUser" ->
                    \* App.User stores the caller as the user when none is found
                    IF UserRows(d.users, o.user) # {} THEN same
                    ELSE IF o.name = "User"
                      THEN [same EXCEPT !.data.users = @ \cup {UserRow(o.caller, "Ann")}]
                    ELSE [same EXCEPT !.err = "notfound"]
               [] call = "GetAccount" ->
                    IF \E a \in d.accounts : a.user_id = o.user /\ a.id = AccountID
                    THEN same ELSE [same EXCEPT !.err = "notfound"]
               [] call = "DeleteAccount" ->
                    [same EXCEPT !.data.accounts =
                        {a \in @ : ~(a.user_id = o.user /\ a.id = AccountID)}]
               [] call = "GetFeed" ->
                    IF \E r \in feeds : r.id = 1 THEN same ELSE [same EXCEPT !.err = "notfound"]
               [] call = "SetItemRead" ->
                    [same EXCEPT !.data.reads =
                        SetItemRead(d.reads, o.user, 1, "g1", TRUE, FALSE).rows]
               [] call = "GetOrCreateFeedID" ->
                    IF FeedLookup(feeds, "u1") # {} THEN same
                    ELSE [same EXCEPT !.feeds = @ \cup {[id |-> NewFeedID, url |-> "u1"]}]
               [] OTHER -> same

UserTables == [data |-> data, feeds |-> feedRows]

UserCall(name, userID, caller) ==
    [op |-> [name |-> name, user |-> userID, caller |-> caller, calls |-> <<>>],
     before |-> UserTables, after |-> UserTables, res |-> "", id |-> 0]

\* The head of a user-scoped operation: the current user and the check.
CallUserOp(p) ==
    /\ pc[p] = "idle"
    /\ "user" \in cfg.roles[p]
    /\ Len(snap[p]) < MaxCalls
    /\ \E name \in UserOps, userID \in Users, caller \in LoggedIn :
         LET r == UserGate(userID, caller)
             c == UserCall(name, userID, caller)
         IN  /\ snap' = [snap EXCEPT ![p] = Append(@, [c EXCEPT !.res = r])]
             /\ res' = [res EXCEPT ![p] = r]
             /\ pc' = [pc EXCEPT ![p] = IF r = "" THEN "userBody" ELSE "done"]
    /\ UNCHANGED <<cfg, rwMutex, op, faulted, emailRows, feedRows, feedSeq, cur, lk, direct, data>>
    /\ UNCHANGED tabVars

\* The next repository call of the body, or the return after the last one.
UserStep(p) ==
    /\ pc[p] = "userBody"
    /\ LET c == LastCall(p)
           body == UserBody(c.op.name)
           k == Len(c.op.calls) + 1
       IN  \E fail \in Faults :
             LET d == UserRepoCall(body[k], c.op, data, feedRows, fail)
                 last == d.err # "" \/ k = Len(body)
                 r == IF d.err # "" THEN d.err ELSE IF last THEN "ok" ELSE ""
             IN  /\ data' = d.data
                 /\ feedRows' = d.feeds
                 /\ feedSeq' = IF d.feeds # feedRows /\ cfg.backend = "postgresql"
                               THEN feedSeq + 1 ELSE feedSeq
                 /\ snap' = [snap EXCEPT
                       ![p][Len(snap[p])].op.calls = Append(@, body[k]),
                       ![p][Len(snap[p])].res = r,
                       ![p][Len(snap[p])].after = [data |-> d.data, feeds |-> d.feeds]]
                 /\ res' = [res EXCEPT ![p] = r]
                 /\ pc' = [pc EXCEPT ![p] = IF last THEN "done" ELSE "userBody"]
    /\ UNCHANGED <<cfg, rwMutex, op, faulted, emailRows, cur, lk, direct>>
    /\ UNCHANGED tabVars

\* One caller, alice's user row, account and an unread item.
InitUserGate ==
    /\ \E b \in {"postgresql", "sqliteBare"} : InitPlain(b, [p \in {1} |-> {"user"}], TRUE)
    /\ \E us \in SUBSET {UserRow("alice", "Ann")} :
          data = [NoData EXCEPT !.users = us,
                                !.accounts = {AccountRow(AccountID, "alice", "gmail", "a@mail")}]

NextUserGate ==
    \E p \in ActiveProcs :
        \/ CallUserOp(p)
        \/ UserStep(p)
        \/ Return(p)

SpecUserGate == InitUserGate /\ [][NextUserGate]_vars

\* A call on the data of a user the caller is not, by a caller who is not the
\* administrator.
Foreign(c) ==
    c.op.caller # "" /\ c.op.user # c.op.caller /\ ~CurrentUserIsAdmin(c.op.caller)

\* C21: a user-scoped operation on another user's data by a caller who is
\* not the administrator has failed with the NotAuthorized error, has made no
\* repository call and has left the tables as they were.
C21_ForeignUserIsDenied ==
    \A p \in ActiveProcs : \A k \in DOMAIN snap[p] :
        LET c == snap[p][k]
        IN  (c.op.name \in UserOps /\ Foreign(c)) =>
               /\ IsNotAuthorized(c.res)
               /\ c.op.calls = <<>>
               /\ c.after = c.before
               /\ (k = Len(snap[p]) => pc[p] \in {"done", "idle"})

C21_Witness ==
    \E p \in ActiveProcs :
        /\ Len(snap[p]) = 2
        /\ snap[p][1].op.name = "RevokeAccount" /\ snap[p][1].op.caller = "alice"
        /\ snap[p][1].op.user = "alice" /\ snap[p][1].res = "storage"
        /\ snap[p][2].op.name = "RevokeAccount" /\ snap[p][2].op.caller = "bob"
        /\ snap[p][2].op.user = "alice" /\ snap[p][2].res = "notAuthorized"
        /\ data.accounts # {}

\* ---------------------------------------------------------------------------
\* HandleOauth2Callback, one call on its own.

\* The call k of p, made while no other caller has made any.
Alone(p) == \A q \in ActiveProcs \ {p} : snap[q] = <<>>

\* C34: a callback that returns an error leaves the codes and the accounts
\* as they were, and one that returns success leaves the state unknown and
\* exactly one more account, of the user who started the flow.
C34_CodeDeletedOnlyOnSuccess ==
    \A p \in ActiveProcs : \A k \in DOMAIN snap[p] :
        LET c == snap[p][k]
        IN  (Alone(p) /\ c.op.name = "HandleOauth2Callback" /\ Returned(p, k)) =>
               IF c.res = "ok"
                 THEN /\ GetUserFromTemporaryCode(c.after.codes, c.op.service, c.op.state) = {}
                      /\ Cardinality(c.after.accounts \ c.before.accounts) = 1
                      /\ c.before.accounts \subseteq c.after.accounts
                      /\ \A a \in c.after.accounts \ c.before.accounts :
                            a.user_id = c.op.userID /\ a.provider = c.op.service
                 ELSE /\ c.after.codes = c.before.codes
                      /\ c.after.accounts = c.before.accounts

\* ---------------------------------------------------------------------------
\* App.feed: when the external source is contacted.

\* The next retrieval times stored for the feed when the call was made.
StoredNext(c) == {i.next_retrieval : i \in {x \in c.before.info : x.id = c.op.feedID}}

\* The feed was refreshed at some time t and the refresh is stored: the
\* feed's next retrieval is t + Period.
RefreshStored(c) == \E t \in Times : StoredNext(c) = {t + Period}

\* C33: a call of App.feed made before the next retrieval time a stored
\* refresh has set returns the stored feed, has not contacted the source and
\* has started no StoreFeed.
C33_NoRefetchBeforeDue ==
    \A p \in ActiveProcs : \A k \in DOMAIN snap[p] :
        LET c == snap[p][k]
        IN  (/\ c.op.name = "feed" /\ Returned(p, k) /\ c.res = "ok"
             /\ RefreshStored(c)
             /\ \A n \in StoredNext(c) : c.op.now < n) =>
               /\ c.op.task = <<>>
               /\ c.op.ext = {}
               /\ \A n \in StoredNext(c) : c.id.feed.NextRetrieval = n

\* ---------------------------------------------------------------------------
\* StoreFeed from two tasks at once.

\* One StoreFeed per task, as each refresh starts one.
CallStoreFeedOnce(p) == snap[p] = <<>> /\ CallStoreFeed(p)

InitStoreFeedConc ==
    /\ \E b \in {"postgresql", "sqlite"} :
          InitFeeds(b, [p \in 1..NumProcs |-> {"StoreFeed"}], FALSE)
    /\ data.items \in {{}, {ItemRow(1, "g1", "t1"), ItemRow(2, "g1", "t1")}}

NextStoreFeedConc ==
    \E p \in ActiveProcs :
        \/ CallStoreFeedOnce(p)
        \/ StoreFeedFirst(p)
        \/ StoreFeedDelete(p)
        \/ StoreFeedInsert(p)

SpecStoreFeedConc == InitStoreFeedConc /\ [][NextStoreFeedConc]_vars

\* The rows of t_feeditem a StoreFeed call supplies.
RowsSupplied(c) ==
    {ItemRow(c.op.feed.ID, c.op.items[i].GUID, c.op.items[i].Title) : i \in DOMAIN c.op.items}

\* C38: when two StoreFeed calls for one existing feed, each with a list of
\* distinct GUIDs, have both returned, both have succeeded and the stored
\* items of the feed are the list of one of them.
C38_ConcurrentStoreFeedIsOneOfTwo ==
    \A p, q \in ActiveProcs :
        (/\ p # q /\ snap[p] # <<>> /\ snap[q] # <<>>
         /\ pc[p] = "done" /\ pc[q] = "done"
         /\ snap[p][1].op.feed.ID > 0
         /\ snap[p][1].op.feed.ID = snap[q][1].op.feed.ID
         /\ NoDup(snap[p][1].op.items) /\ NoDup(snap[q][1].op.items)) =>
            /\ snap[p][1].res = "ok"
            /\ snap[q][1].res = "ok"
            /\ ItemsOf(data.items, snap[p][1].op.feed.ID)
                  \in {RowsSupplied(snap[p][1]), RowsSupplied(snap[q][1])}

\* ---------------------------------------------------------------------------
\* App.User: the user row, created at the first look-up.

\* A row of t_user with its isadmin column, and the display name the user
\* interactor gives for the logged-in user.
UserOf(id, name, admin) == [id |-> id, display_name |-> name, isadmin |-> admin]
DisplayName(caller) == IF caller = "alice" THEN "Ann" ELSE IF caller = "bob" THEN "Bob" ELSE "Root"

\* The user App.User stores when GetUser finds none: the ID, display name
\* and e-mail address are those of the logged-in user.
FirstLogin(userID, caller) == UserOf(caller, DisplayName(caller), FALSE)

AppUserCall(userID, caller) ==
    [op |-> [name |-> "User", user |-> userID, caller |-> caller],
     before |-> data, after |-> data, res |-> "", id |-> {}]

AppUserEnd(p, r, val) ==
    /\ snap' = [snap EXCEPT ![p][Len(snap[p])].res = r,
                            ![p][Len(snap[p])].after = data,
                            ![p][Len(snap[p])].id = val]
    /\ res' = [res EXCEPT ![p] = r]
    /\ pc' = [pc EXCEPT ![p] = "done"]

\* CurrentUser, the check of the caller, GetUser and, when no user is found,
\* StoreUser.
CallAppUser(p) ==
    /\ pc[p] = "idle"
    /\ "AppUser" \in cfg.roles[p]
    /\ Len(snap[p]) < MaxCalls
    /\ \E userID \in Users, caller \in LoggedIn, fail \in Faults, storeFail \in Faults :
         LET c == AppUserCall(userID, caller)
             gate == UserGate(userID, caller)
             got == GetUser(cfg.backend, data.users, userID, fail)
             new == FirstLogin(userID, caller)
             stored == StoreUser(cfg.backend, data.users, new, storeFail)
             create == got.err # Nil /\ IsNotFoundOn(cfg.backend, got.err)
             err == IF got.err = Nil THEN Nil ELSE IF create THEN stored.err ELSE got.err
             user == IF got.err = Nil THEN got.val ELSE {new}
         IN  IF gate # ""
               THEN /\ snap' = [snap EXCEPT ![p] = Append(@, [c EXCEPT !.res = gate])]
                    /\ res' = [res EXCEPT ![p] = gate]
                    /\ pc' = [pc EXCEPT ![p] = "done"]
                    /\ UNCHANGED data
               ELSE /\ data' = IF create THEN [data EXCEPT !.users = stored.users] ELSE data
                    /\ IF Cause(err) # Nil
                         THEN /\ snap' = [snap EXCEPT ![p] =
                                            Append(@, [c EXCEPT !.res = Cause(err).cause,
                                                                !.after = data'])]
                              /\ res' = [res EXCEPT ![p] = Cause(err).cause]
                              /\ pc' = [pc EXCEPT ![p] = "done"]
                         ELSE /\ snap' = [snap EXCEPT ![p] =
                                            Append(@, [c EXCEPT !.after = data', !.id = user])]
                              /\ res' = [res EXCEPT ![p] = ""]
                              /\ pc' = [pc EXCEPT ![p] = "getTabs"]
    /\ UNCHANGED <<cfg, rwMutex, op, faulted, emailRows, feedRows, feedSeq, cur, lk, direct>>
    /\ UNCHANGED tabVars

\* GetTabs of the user, and the return of the user and the tabs.
AppUserTabs(p) ==
    /\ pc[p] = "getTabs"
    /\ \E fail \in Faults :
         LET r == IF cfg.backend = "datastore" THEN NotImplemented(data).err.cause
                  ELSE IF fail THEN "storage" ELSE "ok"
         IN  AppUserEnd(p, r, IF r = "ok" THEN LastCall(p).id ELSE {})
    /\ UNCHANGED <<cfg, rwMutex, op, faulted, emailRows, feedRows, feedSeq, cur, lk, direct, data>>
    /\ UNCHANGED tabVars

\* One caller; alice, the administrator, both or none have a row.
InitAppUser ==
    /\ \E b \in {"postgresql", "datastore"} :
          InitPlain(b, [p \in {1} |-> {"AppUser"}], TRUE)
    /\ \E us \in SUBSET {UserOf("alice", "Ann", FALSE), UserOf("admin", "Root", TRUE)} :
          data = [NoData EXCEPT !.users = us]

NextAppUser ==
    \E p \in ActiveProcs :
        \/ CallAppUser(p)
        \/ AppUserTabs(p)
        \/ Return(p)

SpecAppUser == InitAppUser /\ [][NextAppUser]_vars

\* C39: after a successful App.User(userID) a row of userID exists; when there
\* was none before the call, the call has created exactly one row, for
\* userID and with isadmin false, and has returned that row.
C39_UserRowExistsAfterUser ==
    \A p \in ActiveProcs : \A k \in DOMAIN snap[p] :
        LET c == snap[p][k]
            created == c.after.users \ c.before.users
        IN  (c.op.name = "User" /\ c.res = "ok") =>
               /\ UserRows(c.after.users, c.op.user) # {}
               /\ UserRows(c.before.users, c.op.user) = {} =>
                     /\ Cardinality(created) = 1
                     /\ \A u \in created : u.id = c.op.user /\ ~u.isadmin
                     /\ c.id = created

\* ---------------------------------------------------------------------------
\* App.EditTab next to a layout operation on the same tab.

\* The IDs of the stored layout of the tab.
StoredLayout == ParseLayout(tabRow.layout)

\* C36: once App.EditTab and a concurrent App.UpdateLayout or App.DeleteWidget
\* on the same tab have both succeeded, the stored layout is the one the
\* layout operation produced: the layout asked for, or one without the
\* deleted widget.
C36_EditTabKeepsConcurrentLayout ==
    \A p, q \in ActiveProcs :
        (/\ pc[p] = "done" /\ op[p].name = "EditTab" /\ res[p] = "ok"
         /\ pc[q] = "done" /\ res[q] = "ok") =>
            /\ op[q].name = "UpdateLayout" => StoredLayout = op[q].layout
            /\ op[q].name = "DeleteWidget" =>
                  op[q].widgetID \notin Range(Flatten(StoredLayout))

\* ---------------------------------------------------------------------------
\* Several tabs and their widgets: the repository methods on t_tab and
\* t_widget and the service operations on one widget, one call at a time.

TabIDs == 1..MaxTabs
ConfigTitles == {"a", "b"}

\* json.Marshal of a nil Config, and the layout column of a row that has none.
NullConfig == "null"
NullLayout == <<>>

\* A row of t_widget, and the api.Widget and api.Tab values; a config is the
\* title it carries.
WidgetRow(id, tab, type, config) ==
    [id |-> id, tab_id |-> tab, type |-> type, config |-> config]
Widget(id, type, config) == [ID |-> id, Type |-> type, Config |-> config]
Tab(id, title, widgets) == [ID |-> id, Title |-> title, Widgets |-> widgets]

\* "WHERE id=$1 AND tab_id=$2" of every statement on t_widget.
InTabMutant(r, tabID, widgetID) == r.id = widgetID
InTab(r, tabID, widgetID) == r.id = widgetID /\ r.tab_id = tabID

\* GetWidget's switch on the type: the config of a feed or email row is
\* unmarshaled (JSON null gives the zero config), any other row has none.
ParseConfig(type, json) ==
    IF type \in WidgetTypes THEN (IF json = NullConfig THEN "" ELSE json) ELSE NullConfig

\* repo.GetWidget: the error of the SELECT is dropped, a missing row gives
\* the zero Widget and no error.
RepoGetWidget(d, tabID, widgetID) ==
    LET rows == {r \in d.widgets : InTab(r, tabID, widgetID)}
        r == CHOOSE r \in rows : TRUE
    IN  [err |-> "", d |-> d,
         val |-> IF rows = {} THEN Widget(0, "", NullConfig)
                 ELSE Widget(r.id, r.type, ParseConfig(r.type, r.config))]

\* repo.GetTab: the row, and when it has a layout the widget of every ID.
RepoGetTab(d, tabID) ==
    LET rows == {t \in d.tabs : t.id = tabID}
        t == CHOOSE t \in rows : TRUE
        ids == ParseLayout(t.layout)
    IN  IF rows = {} THEN [err |-> "notfound", d |-> d, val |-> Tab(0, "", <<>>)]
        ELSE [err |-> "", d |-> d,
              val |-> Tab(t.id, t.title,
                          IF t.layout = NullLayout THEN <<>>
                          ELSE [i \in DOMAIN ids |->
                                  [j \in DOMAIN ids[i] |->
                                     RepoGetWidget(d, tabID, ids[i][j]).val]])]

\* "UPDATE t_tab SET title=$1, layout=$2 WHERE id=$3".
UpdateTabRowMutant(d, tab, layout) ==
    [d EXCEPT !.tabs = {IF t.id = tab.ID THEN TabRow(t.id, tab.Title, layout) ELSE t : t \in @},
              !.widgets = {r \in @ : r.tab_id # tab.ID \/ r.id \in Range(layout)}]
UpdateTabRow(d, tab, layout) ==
    [d EXCEPT !.tabs = {IF t.id = tab.ID THEN TabRow(t.id, tab.Title, layout) ELSE t : t \in @}]

\* repo.StoreTab: the layout is built from the IDs of tab.Widgets; UPDATE
\* when the tab has an ID, INSERT when it has none.
RepoStoreTab(d, tab) ==
    IF tab.ID > 0
    THEN [err |-> "", d |-> UpdateTabRow(d, tab, FormatLayout(tab.Widgets)), val |-> tab.ID]
    ELSE [err |-> "", d |-> InsertTab(d, tab.Title, IDsOf(tab.Widgets)), val |-> NewTabID(d)]

\* id assigned by INSERT INTO t_widget.
InsertWidgetID(d) ==
    IF cfg.backend = "postgresql" THEN d.widgetSeq
    ELSE Max({r.id : r \in d.widgets}) + 1

\* repo.StoreWidget: UPDATE of the row of the tab when the widget has an ID,
\* INSERT into the tab when it has none.
RepoStoreWidget(d, tabID, w) ==
    IF w.ID > 0
    THEN [err |-> "",
          d |-> [d EXCEPT !.widgets =
                    {IF InTab(r, tabID, w.ID)
                       THEN WidgetRow(r.id, r.tab_id, w.Type, w.Config) ELSE r : r \in @}],
          val |-> w.ID]
    ELSE [err |-> "",
          d |-> [d EXCEPT !.widgets =
                              @ \cup {WidgetRow(InsertWidgetID(d), tabID, w.Type, w.Config)},
                          !.widgetSeq = IF cfg.backend = "postgresql" THEN @ + 1 ELSE @],
          val |-> InsertWidgetID(d)]

\* repo.DeleteWidget.
RepoDeleteWidget(d, tabID, widgetID) ==
    [err |-> "", d |-> [d EXCEPT !.widgets = {r \in @ : ~InTab(r, tabID, widgetID)}],
     val |-> 0]

\* repo.UpdateTabLayout and repo.DeleteWidgetFromTab, run to their end.
UpdateTabLayout(d, tabID, layout) ==
    LET got == RepoGetTab(d, tabID)
        verdict == ValidateLayout(got.val.Widgets, layout)
    IN  IF got.err # "" THEN [err |-> got.err, d |-> d, val |-> 0]
        ELSE IF verdict # "" THEN [err |-> verdict, d |-> d, val |-> 0]
        ELSE RepoStoreTab(d, [got.val EXCEPT !.Widgets = Rearrange(got.val.Widgets, layout)])

DeleteWidgetFromTab(d, tabID, widgetID) ==
    LET got == RepoGetTab(d, tabID)
        scan == Scan(got.val.Widgets, widgetID)
    IN  IF got.err # "" THEN [err |-> got.err, d |-> d, val |-> 0]
        ELSE IF ~scan.found THEN [err |-> "widgetNotFound", d |-> d, val |-> 0]
        ELSE RepoStoreTab(d, [got.val EXCEPT !.Widgets = RemoveFrom(@, scan.i, scan.j)])

\* App.EditWidget: the check of the caller, GetWidget, the new title put in
\* the config of a feed or email widget, StoreWidget.
EditWidget(d, tabID, widgetID, title, allowed) ==
    LET w == RepoGetWidget(d, tabID, widgetID).val
        edited == IF w.Type \in WidgetTypes THEN [w EXCEPT !.Config = title] ELSE w
        st == RepoStoreWidget(d, tabID, edited)
    IN  IF ~allowed THEN [err |-> "accessDenied", d |-> d, val |-> Widget(0, "", NullConfig)]
        ELSE [err |-> st.err, d |-> st.d, val |-> [edited EXCEPT !.ID = st.val]]

\* App.DeleteWidget: the check, DeleteWidgetFromTab, then DeleteWidget.
AppDeleteWidget(d, tabID, widgetID, allowed) ==
    LET a == DeleteWidgetFromTab(d, tabID, widgetID)
    IN  IF ~allowed THEN [err |-> "accessDenied", d |-> d, val |-> 0]
        ELSE IF a.err # "" THEN [err |-> a.err, d |-> d, val |-> 0]
        ELSE RepoDeleteWidget(a.d, tabID, widgetID)

\* One finished call on the tabs and widgets.
WidgetOp(name, tabID) ==
    [name |-> name, tab |-> tabID, widgetID |-> 0, widget |-> Widget(0, "", NullConfig),
     layout |-> <<>>, title |-> "", allowed |-> TRUE]

WidgetCall(p, o, r) ==
    /\ pc[p] = "idle"
    /\ "widgets" \in cfg.roles[p]
    /\ Len(snap[p]) < MaxCalls
    /\ snap' = [snap EXCEPT ![p] =
                  Append(@, [op |-> o, before |-> data, after |-> r.d,
                             res |-> Result(r.err), id |-> r.val])]
    /\ data' = r.d
    /\ res' = [res EXCEPT ![p] = Result(r.err)]
    /\ pc' = [pc EXCEPT ![p] = "done"]
    /\ UNCHANGED <<cfg, rwMutex, op, faulted, emailRows, feedRows, feedSeq, cur, lk, direct>>
    /\ UNCHANGED tabVars

\* The widgets an arrangement of IDs stands for, as StoreTab is given them.
WidgetsOf(ids) == [i \in DOMAIN ids |-> [j \in DOMAIN ids[i] |-> Widget(ids[i][j], "", NullConfig)]]

WidgetIDInputs == 0..(MaxWidgets + 1)
Arrangements == LayoutsOf(1..MaxPerm, MaxPerm)

CallRepoGetTab(p) ==
    \E tabID \in 1..(MaxTabs + 1) :
        WidgetCall(p, WidgetOp("GetTab", tabID), RepoGetTab(data, tabID))

CallRepoStoreTab(p) ==
    \E id \in 0..MaxTabs, ids \in Arrangements :
        WidgetCall(p, [WidgetOp("StoreTab", id) EXCEPT !.layout = ids, !.title = "Mail"],
                   RepoStoreTab(data, Tab(id, "Mail", WidgetsOf(ids))))

CallRepoGetWidget(p) ==
    \E tabID \in TabIDs, widgetID \in WidgetIDInputs :
        WidgetCall(p, [WidgetOp("GetWidget", tabID) EXCEPT !.widgetID = widgetID],
                   RepoGetWidget(data, tabID, widgetID))

CallRepoStoreWidget(p) ==
    \E tabID \in TabIDs, id \in WidgetIDInputs, type \in WidgetTypes, title \in ConfigTitles :
        WidgetCall(p, [WidgetOp("StoreWidget", tabID) EXCEPT
                          !.widgetID = id, !.widget = Widget(id, type, title)],
                   RepoStoreWidget(data, tabID, Widget(id, type, title)))

CallRepoDeleteWidget(p) ==
    \E tabID \in TabIDs, widgetID \in WidgetIDInputs :
        WidgetCall(p, [WidgetOp("DeleteWidget", tabID) EXCEPT !.widgetID = widgetID],
                   RepoDeleteWidget(data, tabID, widgetID))

CallUpdateTabLayout(p) ==
    \E tabID \in TabIDs, ids \in Arrangements :
        WidgetCall(p, [WidgetOp("UpdateTabLayout", tabID) EXCEPT !.layout = ids],
                   UpdateTabLayout(data, tabID, ids))

CallDeleteWidgetFromTab(p) ==
    \E tabID \in TabIDs, widgetID \in WidgetIDInputs :
        WidgetCall(p, [WidgetOp("DeleteWidgetFromTab", tabID) EXCEPT !.widgetID = widgetID],
                   DeleteWidgetFromTab(data, tabID, widgetID))

CallEditWidget(p) ==
    \E tabID \in TabIDs, widgetID \in WidgetIDInputs, title \in ConfigTitles, c \in Callers :
        WidgetCall(p, [WidgetOp("App.EditWidget", tabID) EXCEPT
                          !.widgetID = widgetID, !.title = title,
                          !.allowed = Allowed(c, FALSE)],
                   EditWidget(data, tabID, widgetID, title, Allowed(c, FALSE)))

CallAppDeleteWidget(p) ==
    \E tabID \in TabIDs, widgetID \in WidgetIDInputs, c \in Callers :
        WidgetCall(p, [WidgetOp("App.DeleteWidget", tabID) EXCEPT
                          !.widgetID = widgetID, !.allowed = Allowed(c, FALSE)],
                   AppDeleteWidget(data, tabID, widgetID, Allowed(c, FALSE)))

\* The stored layouts of the first tab: none, no column, two widgets in one
\* of two columns, the same two in a column each.
FirstTabLayouts ==
    {NullLayout} \cup
    {<<LB>> \o FormatCols(ids) \o <<RB>> : ids \in {<<>>, <<<<1, 2>>, <<>>>>, <<<<2>>, <<1>>>>}}

\* Every tab exists; the last widget is the one widget of the last tab, the
\* others are widgets of the first tab.
InitWidgets ==
    /\ \E b \in {"postgresql", "sqliteBare"} :
          InitPlain(b, [p \in {1} |-> {"widgets"}], FALSE)
    /\ \E first \in FirstTabLayouts :
          data = [NoData EXCEPT
                    !.tabs = {TabRow(t, "News",
                                     IF t = 1 THEN first
                                     ELSE IF t = MaxTabs
                                       THEN <<LB>> \o FormatCols(<<<<MaxWidgets>>>>) \o <<RB>>
                                     ELSE <<LB, RB>>) : t \in TabIDs},
                    !.tabSeq = MaxTabs + 1,
                    !.widgets = {WidgetRow(w, IF w = MaxWidgets THEN MaxTabs ELSE 1,
                                           IF w = 1 THEN "feed" ELSE "email", "a") :
                                    w \in 1..MaxWidgets},
                    !.widgetSeq = MaxWidgets + 1]

NextWidgets ==
    \E p \in ActiveProcs :
        \/ CallRepoGetTab(p)
        \/ CallRepoStoreTab(p)
        \/ CallRepoGetWidget(p)
        \/ CallRepoStoreWidget(p)
        \/ CallRepoDeleteWidget(p)
        \/ CallUpdateTabLayout(p)
        \/ CallDeleteWidgetFromTab(p)
        \/ CallEditWidget(p)
        \/ CallAppDeleteWidget(p)
        \/ Return(p)

SpecWidgets == InitWidgets /\ [][NextWidgets]_vars

\* The widget rows and the tab rows outside a tab.
WidgetsOutside(d, tabID) == {r \in d.widgets : r.tab_id # tabID}
TabsOutside(d, tabID) == {t \in d.tabs : t.id # tabID}

\* C31: UpdateTabLayout, DeleteWidgetFromTab and StoreTab leave every widget
\* row as it was, and StoreWidget leaves every tab row (title and layout) as
\* it was.
C31_LayoutAndContentApart ==
    \A p \in ActiveProcs : \A k \in DOMAIN snap[p] :
        LET c == snap[p][k]
        IN  /\ c.op.name \in {"UpdateTabLayout", "DeleteWidgetFromTab", "StoreTab"} =>
                  c.after.widgets = c.before.widgets
            /\ c.op.name = "StoreWidget" => c.after.tabs = c.before.tabs

\* A layout of the first tab has been replaced by one that leaves a widget
\* of the tab out, and a widget has been stored.
C31_Witness ==
    \E p \in ActiveProcs :
        /\ Len(snap[p]) = 2
        /\ snap[p][1].op.name = "StoreTab" /\ snap[p][1].op.tab = 1
        /\ snap[p][1].op.layout = <<<<2>>>>
        /\ snap[p][1].after.tabs # snap[p][1].before.tabs
        /\ \E r \in snap[p][1].after.widgets : r.id = 1 /\ r.tab_id = 1
        /\ snap[p][2].op.name = "StoreWidget" /\ snap[p][2].op.widgetID = 0
        /\ snap[p][2].after.widgets # snap[p][2].before.widgets

\* The widget every ID of an arrangement has a row for in the tab.
Persisted(d, tabID, ids) ==
    \A id \in Range(Flatten(ids)) : \E r \in d.widgets : InTab(r, tabID, id)

RowWidget(d, tabID, id) ==
    LET r == CHOOSE r \in d.widgets : InTab(r, tabID, id)
    IN  Widget(r.id, r.type, ParseConfig(r.type, r.config))

\* C32: when StoreTab has stored an arrangement of IDs whose widgets are rows
\* of the tab, the GetTab that follows succeeds and returns, column by column
\* and in the order of each column, the widgets of these IDs, empty columns
\* included; GetTab of a tab whose stored layout is absent or has no column
\* succeeds and returns no widgets.
C32_StoreTabGetTabRoundTrip ==
    \A p \in ActiveProcs : \A k \in DOMAIN snap[p] :
        LET c == snap[p][k]
            s == snap[p][k - 1]
        IN  c.op.name = "GetTab" =>
              /\ (/\ k > 1
                  /\ s.op.name = "StoreTab"
                  /\ c.op.tab = s.id
                  /\ Persisted(c.before, c.op.tab, s.op.layout)) =>
                    /\ c.res = "ok"
                    /\ c.id.ID = s.id /\ c.id.Title = s.op.title
                    /\ IDsOf(c.id.Widgets) = s.op.layout
                    /\ \A i \in DOMAIN s.op.layout : \A j \in DOMAIN s.op.layout[i] :
                          c.id.Widgets[i][j] = RowWidget(c.before, c.op.tab, s.op.layout[i][j])
              /\ (\E t \in c.before.tabs :
                      t.id = c.op.tab /\ t.layout \in {NullLayout, <<LB, RB>>}) =>
                    c.res = "ok" /\ c.id.Widgets = <<>>

\* Two widgets of the first tab, which had no layout, have been stored in
\* the first of two columns in reverse order, and GetTab has returned them.
C32_Witness ==
    \E p \in ActiveProcs :
        /\ Len(snap[p]) = 2
        /\ snap[p][1].op.name = "StoreTab" /\ snap[p][1].op.tab = 1
        /\ snap[p][1].op.layout = <<<<2, 1>>, <<>>>>
        /\ \E t \in snap[p][1].before.tabs : t.id = 1 /\ t.layout = NullLayout
        /\ snap[p][2].op.name = "GetTab" /\ snap[p][2].op.tab = 1
        /\ snap[p][2].res = "ok"
        /\ snap[p][2].id.Widgets =
              <<<<Widget(2, "email", "a"), Widget(1, "feed", "a")>>, <<>>>>

\* C35: GetWidget of an ID that has no row in the tab returns a not-found
\* error, and App.EditWidget of such an ID fails and leaves the widget rows
\* as they were.
C35_MissingWidgetIsNotFound ==
    \A p \in ActiveProcs : \A k \in DOMAIN snap[p] :
        LET c == snap[p][k]
            missing == ~\E r \in c.before.widgets : InTab(r, c.op.tab, c.op.widgetID)
        IN  /\ (c.op.name = "GetWidget" /\ missing) => c.res = "notfound"
            /\ (c.op.name = "App.EditWidget" /\ missing) =>
                  c.res # "ok" /\ c.after.widgets = c.before.widgets

\* C37: GetWidget, StoreWidget, DeleteWidget, App.EditWidget and
\* App.DeleteWidget called with a tab leave the widget rows of every other
\* tab and every other tab row (title and layout) as they were, and a widget
\* they return is a row of the tab they were called with.
C37_WidgetOpsScopedToTab ==
    \A p \in ActiveProcs : \A k \in DOMAIN snap[p] :
        LET c == snap[p][k]
        IN  c.op.name \in {"GetWidget", "StoreWidget", "DeleteWidget",
                           "App.EditWidget", "App.DeleteWidget"} =>
              /\ WidgetsOutside(c.after, c.op.tab) = WidgetsOutside(c.before, c.op.tab)
              /\ TabsOutside(c.after, c.op.tab) = TabsOutside(c.before, c.op.tab)
              /\ (c.op.name \in {"GetWidget", "App.EditWidget"} /\ c.id.ID > 0) =>
                    \E r \in c.after.widgets : InTab(r, c.op.tab, c.id.ID)

\* The widget of the last tab has been stored and then deleted through the
\* first tab; both calls succeeded and its row is as it was.
C37_Witness ==
    \E p \in ActiveProcs :
        /\ Len(snap[p]) = 2
        /\ snap[p][1].op.name = "StoreWidget" /\ snap[p][1].op.tab = 1
        /\ snap[p][1].op.widget = Widget(MaxWidgets, "feed", "b")
        /\ snap[p][1].res = "ok"
        /\ snap[p][2].op.name = "DeleteWidget" /\ snap[p][2].op.tab = 1
        /\ snap[p][2].op.widgetID = MaxWidgets
        /\ snap[p][2].res = "ok"
        /\ WidgetRow(MaxWidgets, MaxTabs, "email", "a") \in snap[p][2].after.widgets

====
